---- MODULE Spec2Model ----
(***************************************************************************)
(* The OAuth 2.0 authorization-server proxy of macro-mcp.                  *)
(*                                                                         *)
(* Two implementations are modelled, one per deployment:                   *)
(*   impl = "routes" : src/src/routes/oauth.js  (Express router)           *)
(*   impl = "server" : src/server.js            (mcp-use server)           *)
(* and, of two further variants, the handlers the properties speak of:     *)
(*   impl = "serverless" : src/unnamed/part_005 (callback function)        *)
(*   impl = "strict"     : src/unnamed/part_010 (authorize of the router)  *)
(* The MCP tool calls read and write the upstream database only, never the  *)
(* OAuth stores, so they are run apart:                                    *)
(*   impl = "server_mcp" : src/server.js, POST /mcp and its tools          *)
(*   impl = "routes_mcp" : src/src/tools/meals.js (save_meal)              *)
(*   impl = "api_mcp"    : src/api/mcp/index.js (save_meal)                *)
(* A run executes exactly one of them; the variable impl is fixed by Init. *)
(***************************************************************************)
EXTENDS Integers, Sequences, FiniteSets, TLC

VARIABLES
    impl,                   \* which program this run executes
    now,                    \* Date.now(), in the time unit of the program run
    authCodes,              \* routes/oauth.js: const authCodes = new Map()
    issuedStates,           \* history: encoded states GET /oauth/authorize handed out
    oauthClients,           \* server.js: const oauthClients = new Map()
    pendingAuthorizations,  \* server.js: const pendingAuthorizations = new Map()
    authorizationCodes,     \* server.js: const authorizationCodes = new Map()
    inflight,               \* callback requests suspended at their await
    nextId,                 \* source of crypto.randomBytes / randomUUID values
    minted,                 \* history: code -> what the minting callback held
    okCount,                \* history: code -> number of 200 token responses
    passCount,              \* history: state token -> callbacks that got past its lookup
    last,                   \* the response of the last request handled
    authorized,             \* history: server.js state token -> the request authorize accepted
    stateStore,             \* unnamed/part_005: const stateStore = new Map()
    codeStore,              \* unnamed/part_005: const codeStore = new Map()
    stateStoreAuthorize,    \* api/oauth/authorize.js: const stateStore = new Map()
    codeStoreToken,         \* unnamed/part_004: const codeStore = new Map()
    fact_meal_macros        \* the table of meals in the upstream database

vars == <<impl, now, authCodes, issuedStates, oauthClients,
          pendingAuthorizations, authorizationCodes, inflight, nextId,
          minted, okCount, passCount, last, authorized, stateStore, codeStore,
          stateStoreAuthorize, codeStoreToken, fact_meal_macros>>

-----------------------------------------------------------------------------
(* Bounds of the model *)

MaxTimeRoutes == 2      \* clock of the routes run: 0..MaxTimeRoutes (units of 10 min)
MaxTimeServer == 1      \* clock of the server run: see TimePointsServer (units of 1 min)
MaxIds == 2             \* authorization codes minted per run
MaxInflightServer == 2  \* server callbacks awaiting the upstream at the same time
MaxAuthorize == 1       \* states handed out by GET /oauth/authorize per run
MaxClients == 1         \* clients registered per run

-----------------------------------------------------------------------------
(* Values *)

Absent == "absent"      \* a parameter that is undefined / missing (falsy in JS)

EmptyMap == [c \in {} |-> 0]   \* new Map()

Truthy(x) == x # Absent

\* SHA-256 then base64url, as a table <<text, digest>>: a function without fixed
\* points on the verifiers of the model
Sha256Table == { <<"v1", "d1">>, <<"d1", "e1">>, <<"g1", "e2">> }

\* PKCE that compares the verifier itself, whatever the method
S256AsPlain(v) == v

\* crypto.createHash('sha256').update(v).digest('base64url')
S256(v) ==
    IF \E p \in Sha256Table : p[1] = v
    THEN (CHOOSE p \in Sha256Table : p[1] = v)[2]
    ELSE "e3"

Verifiers == {"v1", "d1", "g1"}

\* new URL(s): throws for a string that is not an absolute URL
UrlParses(u) == u \in {"https://app/cb", "https://app/cb/",
                       "http://localhost:3000/oauth/callback", "https://evil/cb"}

\* upstream (Supabase) sessions: the n-th session the upstream opens has its own
\* access token, refresh token and user
AccessTokenOf(n) == <<"at1", "at2", "at3", "at4">>[n]
RefreshOf(at) == CASE at = "at1" -> "rt1" [] at = "at2" -> "rt2"
                   [] at = "at3" -> "rt3" [] OTHER -> "rt4"
UserOf(at) == CASE at = "at1" -> "u1" [] at = "at2" -> "u2"
                [] at = "at3" -> "u3" [] OTHER -> "u4"

NoBody == [access_token |-> Absent, token_type |-> Absent, expires_in |-> 0,
           refresh_token |-> Absent, scope |-> Absent]

NoState == [ok |-> FALSE, clientState |-> Absent, redirectUri |-> Absent,
            clientId |-> Absent, scope |-> Absent, codeChallenge |-> Absent,
            codeChallengeMethod |-> Absent, timestamp |-> 0]

\* A response: HTTP status, OAuth error code, error_description, what the handler
\* put in it (a code, an encoded state, a token body, a client redirect), and the
\* code or state token of the request it answers.
Resp(op, status, error, desc) ==
    [op |-> op, status |-> status, error |-> error, desc |-> desc,
     code |-> 0, stateToken |-> 0, state |-> NoState, body |-> NoBody,
     redirect |-> Absent]

-----------------------------------------------------------------------------
(* src/src/routes/oauth.js *)

\* config.oauth.codeExpirySeconds * 1000 = 600 000 ms, in units of 10 minutes
CodeExpiryRoutes == 1
\* 10 * 60 * 1000 ms, the oldest state a callback accepts, in units of 10 minutes
StateMaxAgeRoutes == 1
\* config.oauth.tokenExpirySeconds
TokenExpirySeconds == 3600

DefaultRedirectUri == "http://localhost:3000/oauth/callback"

\* crypto.randomBytes(32).toString('base64url') of the PKCE fallback
RandomChallenges == {"g1"}
\* crypto.randomBytes(16).toString('base64url') of the state fallback
RandomStates == {"r1"}

AuthReq(client, redirect, rtype, state, scope, chal, method) ==
    [client_id |-> client, redirect_uri |-> redirect, response_type |-> rtype,
     state |-> state, scope |-> scope, code_challenge |-> chal,
     code_challenge_method |-> method]

\* The query strings GET /oauth/authorize is called with
AuthorizeRequests ==
    { AuthReq("A", "https://app/cb", "code", "s1", "meals", "d1", "S256"),
      AuthReq(Absent, Absent, Absent, Absent, Absent, Absent, Absent),
      AuthReq("A", "https://app/cb", "token", "s1", "meals", "d1", "S256"),
      AuthReq("A", "https://app/cb", "code", "s1", "meals", "d1", "S512"),
      AuthReq("A", "not a url", "code", "s1", "meals", "d1", "S256") }

\* Queries without code_challenge, with and without a method
AuthorizeRequestsNoChallenge ==
    { q \in AuthorizeRequests : ~Truthy(q.code_challenge) }
    \cup { AuthReq("A", "https://app/cb", "code", "s1", "meals", Absent, m) :
             m \in {"S256", "plain", "S512", Absent} }

\* Buffer.from(JSON.stringify(oauthState)).toString('base64url'): the encoded
\* text carries every field of the record; ok says that the text decodes.
EncodeState(o) ==
    [ok |-> TRUE, clientState |-> o.clientState, redirectUri |-> o.redirectUri,
     clientId |-> o.clientId, scope |-> o.scope, codeChallenge |-> o.codeChallenge,
     codeChallengeMethod |-> o.codeChallengeMethod, timestamp |-> o.timestamp]

\* JSON.parse(Buffer.from(encodedState, 'base64url').toString('utf-8'))
DecodeState(e) ==
    [clientState |-> e.clientState, redirectUri |-> e.redirectUri,
     clientId |-> e.clientId, scope |-> e.scope, codeChallenge |-> e.codeChallenge,
     codeChallengeMethod |-> e.codeChallengeMethod, timestamp |-> e.timestamp]

\* A text that is not the base64url of a JSON document
GarbageState == [NoState EXCEPT !.clientState = "garbage"]

\* A fallback that keeps S256 for the challenge the handler generated
FallbackMethodS256(sent) == "S256"

\* code_challenge_method = 'plain' of the PKCE fallback, whatever method was sent
FallbackMethod(sent) == "plain"

\* router.get('/oauth/authorize'): the response to request q at time t, with
\* rs and rc the random state and challenge the handler may draw
AuthorizeRoutesResult(q, t, rs, rc) ==
    LET redirect_uri == IF Truthy(q.redirect_uri) THEN q.redirect_uri
                        ELSE DefaultRedirectUri
        response_type == IF Truthy(q.response_type) THEN q.response_type ELSE "code"
        state == IF Truthy(q.state) THEN q.state ELSE rs
        code_challenge == IF Truthy(q.code_challenge) THEN q.code_challenge ELSE rc
        code_challenge_method == IF Truthy(q.code_challenge) THEN q.code_challenge_method
                                 ELSE FallbackMethod(q.code_challenge_method)
        oauthState == [clientState |-> state,
                       redirectUri |-> redirect_uri,
                       clientId |-> IF Truthy(q.client_id) THEN q.client_id ELSE "mcp-client",
                       scope |-> IF Truthy(q.scope) THEN q.scope ELSE "openid",
                       codeChallenge |-> code_challenge,
                       codeChallengeMethod |-> code_challenge_method,
                       timestamp |-> t]
    IN  IF response_type # "code"
        THEN Resp("authorize", 400, "unsupported_response_type",
                  "Only code response type is supported")
        ELSE IF Truthy(q.code_challenge)
                /\ code_challenge_method # "S256" /\ code_challenge_method # "plain"
        THEN Resp("authorize", 400, "invalid_request",
                  "code_challenge_method must be S256 or plain")
        ELSE [Resp("authorize", 302, Absent, "signup.html")
                 EXCEPT !.state = EncodeState(oauthState)]

AuthorizeRoutes ==
    /\ impl = "routes"
    /\ \E q \in AuthorizeRequests, rs \in RandomStates, rc \in RandomChallenges :
         LET r == AuthorizeRoutesResult(q, now, rs, rc)
         IN  /\ r.status = 302 => Cardinality(issuedStates \cup {r.state}) <= MaxAuthorize
             /\ last' = [r EXCEPT !.state = NoState]
             /\ issuedStates' = IF r.status = 302 THEN issuedStates \cup {r.state}
                                ELSE issuedStates
    /\ UNCHANGED <<impl, now, authCodes, oauthClients,
                   pendingAuthorizations, authorizationCodes, inflight, nextId,
                   minted, okCount, passCount, authorized, stateStore, codeStore,
          stateStoreAuthorize, codeStoreToken, fact_meal_macros>>

\* States a callback can be called with that GET /oauth/authorize never produced:
\* any client can build the base64url of a JSON document of its own
ForgedStates(t) ==
    { [ok |-> TRUE, clientState |-> "s9", redirectUri |-> "https://evil/cb",
       clientId |-> "A", scope |-> "meals", codeChallenge |-> "d1",
       codeChallengeMethod |-> "S512", timestamp |-> t] }

CallbackStates(t) == issuedStates \cup ForgedStates(t) \cup {GarbageState, NoState}

StatePresent(e) == e # NoState

CallbackReq(e, code, at, rt, err) ==
    [state |-> e, code |-> code, access_token |-> at, refresh_token |-> rt,
     error |-> err]

\* What the upstream answers to the await of a callback: a session (user and
\* token pair) or an error
UpstreamFailed == [ok |-> FALSE, access_token |-> Absent, refresh_token |-> Absent]
UpstreamSession(at) == [ok |-> TRUE, access_token |-> at, refresh_token |-> RefreshOf(at)]

\* The record both callbacks store under the new code
CodeRecordRoutes(o, at, rt, userId, t) ==
    [accessToken |-> at, refreshToken |-> rt,
     codeChallenge |-> o.codeChallenge, codeChallengeMethod |-> o.codeChallengeMethod,
     redirectUri |-> o.redirectUri, clientId |-> o.clientId, scope |-> o.scope,
     expiresAt |-> t + CodeExpiryRoutes, userId |-> userId]

\* try-block of both callbacks up to the await: decode the state, check its age
StateAccepted(e, t) ==
    /\ e.ok
    /\ ~ (t - DecodeState(e).timestamp > StateMaxAgeRoutes)

\* A callback that answers with the code and stores nothing
MintRoutesUnstored(store, op, errorCode, o, at, rt, t, authCode) ==
    [resp |-> [Resp(op, 200, Absent, "redirect")
                 EXCEPT !.code = authCode, !.redirect = o.redirectUri],
     store |-> store]

\* try-block of both callbacks after the await: store the code under authCode,
\* then build the client redirect; new URL() throws after the store
MintRoutes(store, op, errorCode, o, at, rt, t, authCode) ==
    LET stored == authCode :> CodeRecordRoutes(o, at, rt, UserOf(at), t) @@ store
    IN  IF UrlParses(o.redirectUri)
        THEN [resp |-> [Resp(op, 200, Absent, "redirect")
                          EXCEPT !.code = authCode, !.redirect = o.redirectUri,
                                 !.state = [NoState EXCEPT !.clientState = o.clientState]],
              store |-> stored]
        ELSE [resp |-> Resp(op, 500, errorCode, "Invalid URL"), store |-> stored]

\* router.post('/oauth/callback'): the response to body q at time t when the
\* upstream answers getUser() with up, and the store the handler leaves
CallbackPostRoutesResult(store, q, t, up, authCode) ==
    IF ~StatePresent(q.state) \/ ~Truthy(q.access_token)
    THEN [resp |-> Resp("callback_post", 400, "invalid_request",
                        "Missing state or access_token"),
          store |-> store]
    ELSE IF ~q.state.ok
    THEN [resp |-> Resp("callback_post", 500, "server_error", "Unexpected token"),
          store |-> store]
    ELSE IF ~StateAccepted(q.state, t)
    THEN [resp |-> Resp("callback_post", 500, "server_error", "OAuth state expired"),
          store |-> store]
    ELSE IF ~up.ok
    THEN [resp |-> Resp("callback_post", 500, "server_error",
                        "Failed to get user information"),
          store |-> store]
    ELSE MintRoutes(store, "callback_post", "server_error", DecodeState(q.state),
                    q.access_token, q.refresh_token, t, authCode)

\* router.get('/oauth/callback'): the response to query q at time t when the
\* upstream answers exchangeCodeForSession() with up, and the store the handler leaves
CallbackGetRoutesResult(store, q, t, up, authCode) ==
    IF Truthy(q.error)
    THEN [resp |-> Resp("callback_get", 400, Absent, "Authentication Failed"),
          store |-> store]
    ELSE IF ~StatePresent(q.state) \/ ~Truthy(q.code)
    THEN [resp |-> Resp("callback_get", 400, "invalid_request",
                        "Missing state or code parameter"),
          store |-> store]
    ELSE IF ~q.state.ok
    THEN [resp |-> Resp("callback_get", 500, Absent, "Unexpected token"),
          store |-> store]
    ELSE IF ~StateAccepted(q.state, t)
    THEN [resp |-> Resp("callback_get", 500, Absent, "OAuth state expired"),
          store |-> store]
    ELSE IF ~up.ok
    THEN [resp |-> Resp("callback_get", 500, Absent, "Failed to authenticate with Supabase"),
          store |-> store]
    ELSE MintRoutes(store, "callback_get", Absent, DecodeState(q.state),
                    up.access_token, up.refresh_token, t, authCode)

\* The bodies POST /oauth/callback is called with: the signup page posts the
\* token pair the upstream gave it
CallbackPostRequests(t, session) ==
    { CallbackReq(e, Absent, at, RefreshOf(session), Absent) :
        e \in CallbackStates(t), at \in {session, Absent} }

\* The queries GET /oauth/callback is called with
CallbackGetRequests(t) ==
    { CallbackReq(e, c, Absent, Absent, err) :
        e \in CallbackStates(t), c \in {"sc", Absent}, err \in {"access_denied", Absent} }

RoutesFrame == UNCHANGED <<impl, now, oauthClients, pendingAuthorizations,
                           authorizationCodes, inflight, passCount, authorized,
                           stateStore, codeStore,
          stateStoreAuthorize, codeStoreToken, fact_meal_macros>>

\* history: the state the minting callback was called with and the token pair the
\* upstream gave in that callback (posted by the page, or returned by the exchange)
Minting(old, new, q, up, hist) ==
    IF DOMAIN new = DOMAIN old THEN hist
    ELSE LET c == CHOOSE k \in DOMAIN new : k \notin DOMAIN old
         IN  c :> [accessToken |-> IF Truthy(q.access_token) THEN q.access_token
                                   ELSE up.access_token,
                   refreshToken |-> IF Truthy(q.access_token) THEN q.refresh_token
                                    ELSE up.refresh_token,
                   state |-> q.state] @@ hist

\* One POST /oauth/callback request.  The handler keeps the request in locals
\* across its await and touches the store only afterwards, under a fresh key.
CallbackPostRoutes ==
    /\ impl = "routes"
    /\ \E q \in CallbackPostRequests(now, AccessTokenOf(nextId)),
          up \in {UpstreamFailed, UpstreamSession(AccessTokenOf(nextId))} :
         LET r == CallbackPostRoutesResult(authCodes, q, now, up, nextId)
         IN  /\ DOMAIN r.store # DOMAIN authCodes => nextId <= MaxIds
             /\ authCodes' = r.store
             /\ last' = r.resp
             /\ minted' = Minting(authCodes, r.store, q, up, minted)
             /\ nextId' = IF DOMAIN r.store = DOMAIN authCodes THEN nextId ELSE nextId + 1
    /\ UNCHANGED <<issuedStates, okCount>>
    /\ RoutesFrame

\* One GET /oauth/callback request
CallbackGetRoutes ==
    /\ impl = "routes"
    /\ \E q \in CallbackGetRequests(now),
          up \in {UpstreamFailed, UpstreamSession(AccessTokenOf(nextId))} :
         LET r == CallbackGetRoutesResult(authCodes, q, now, up, nextId)
         IN  /\ DOMAIN r.store # DOMAIN authCodes => nextId <= MaxIds
             /\ authCodes' = r.store
             /\ last' = r.resp
             /\ minted' = Minting(authCodes, r.store, q, up, minted)
             /\ nextId' = IF DOMAIN r.store = DOMAIN authCodes THEN nextId ELSE nextId + 1
    /\ UNCHANGED <<issuedStates, okCount>>
    /\ RoutesFrame

TokenReq(grant, code, redirect, verifier, client) ==
    [grant_type |-> grant, code |-> code, redirect_uri |-> redirect,
     code_verifier |-> verifier, client_id |-> client]

\* A code value no callback ever minted; code 0 stands for a missing code
UnknownCode == MaxIds + 1

\* The bodies POST /oauth/token can be called with
TokenRequestsRoutes ==
    { TokenReq("authorization_code", c, r, v, "A") :
        c \in 0..UnknownCode,
        r \in {"https://app/cb", "https://app/cb/", DefaultRedirectUri, Absent},
        v \in Verifiers \cup {Absent} }
    \cup { TokenReq("refresh_token", c, "https://app/cb", "v1", "A") : c \in 0..UnknownCode }
    \cup { TokenReq("authorization_code", c, "https://app/cb", v, "B") :
             c \in 1..MaxIds, v \in Verifiers }

\* A handler that answers every failure with invalid_grant
TokenErrorAlwaysGrant(error, desc) == Resp("token", 400, "invalid_grant", desc)

TokenError(error, desc) == Resp("token", 400, error, desc)

Without(store, code) == [c \in DOMAIN store \ {code} |-> store[c]]

\* A lookup that returns the oldest stored record, whatever the code
CodeDataOldest(store, code) ==
    store[CHOOSE k \in DOMAIN store : \A j \in DOMAIN store : k <= j]

\* authCodes.get(code) / authorizationCodes.get(code)
CodeData(store, code) == store[code]

\* A comparison that ignores one trailing slash
WithoutSlash(u) == IF u = "https://app/cb/" THEN "https://app/cb" ELSE u
SameRedirectUriLoose(a, b) == WithoutSlash(a) = WithoutSlash(b)

\* redirect_uri !== codeData.redirectUri: strict string comparison
SameRedirectUri(a, b) == a = b

\* A recomputation that ignores the stored method
ComputedChallengePlain(method, code_verifier) == code_verifier

\* The challenge recomputed from the verifier with the method stored with the code
ComputedChallenge(method, code_verifier) ==
    IF method = "S256" THEN S256(code_verifier) ELSE code_verifier

\* A token handler that answers without deleting the code
ConsumeCodeKept(store, code) == store

\* "Code is single-use - delete it now": the delete that precedes the token response
ConsumeCode(store, code) == Without(store, code)

\* router.post('/oauth/token'): the response to body q at time t and the store
\* the handler leaves
TokenRoutesResult(store, q, t) ==
    IF q.grant_type # "authorization_code"
    THEN [resp |-> TokenError("unsupported_grant_type",
                              "Only authorization_code grant type is supported"),
          store |-> store]
    ELSE IF q.code = 0
    THEN [resp |-> TokenError("invalid_request", "Missing authorization code"),
          store |-> store]
    ELSE IF q.code \notin DOMAIN store
    THEN [resp |-> TokenError("invalid_grant", "Authorization code is invalid or expired"),
          store |-> store]
    ELSE LET codeData == CodeData(store, q.code)
             computedChallenge ==
                 ComputedChallenge(codeData.codeChallengeMethod, q.code_verifier)
         IN
         IF codeData.expiresAt < t
         THEN [resp |-> TokenError("invalid_grant", "Authorization code expired"),
               store |-> Without(store, q.code)]
         ELSE IF ~Truthy(q.code_verifier)
         THEN [resp |-> TokenError("invalid_request", "code_verifier is required for PKCE"),
               store |-> store]
         ELSE IF codeData.codeChallengeMethod \notin {"S256", "plain"}
         THEN [resp |-> TokenError("invalid_grant", "Unsupported code_challenge_method"),
               store |-> Without(store, q.code)]
         ELSE IF computedChallenge # codeData.codeChallenge
         THEN [resp |-> TokenError("invalid_grant", "PKCE verification failed"),
               store |-> Without(store, q.code)]
         ELSE IF ~SameRedirectUri(q.redirect_uri, codeData.redirectUri)
         THEN [resp |-> TokenError("invalid_grant", "redirect_uri does not match"),
               store |-> Without(store, q.code)]
         ELSE [resp |-> [Resp("token", 200, Absent, Absent)
                           EXCEPT !.body = [access_token |-> codeData.accessToken,
                                            token_type |-> "Bearer",
                                            expires_in |-> TokenExpirySeconds,
                                            refresh_token |-> codeData.refreshToken,
                                            scope |-> codeData.scope]],
               store |-> ConsumeCode(store, q.code)]

\* history of 200 responses per code, capped at 2
Counted(cnt, resp, code) ==
    IF resp.status = 200 /\ cnt[code] < 2 THEN [cnt EXCEPT ![code] = @ + 1] ELSE cnt

\* One POST /oauth/token request; the response may be lost on its way back
TokenRoutes ==
    /\ impl = "routes"
    /\ \E q \in TokenRequestsRoutes :
         LET r == TokenRoutesResult(authCodes, q, now)
         IN  /\ authCodes' = r.store
             /\ last' = [r.resp EXCEPT !.code = q.code]
             /\ okCount' = Counted(okCount, r.resp, q.code)
    /\ UNCHANGED <<issuedStates, nextId, minted>>
    /\ RoutesFrame

\* A sweep that also removes the records expiring at this very instant
SweptEarly(store, t) ==
    [c \in {k \in DOMAIN store : ~ (store[k].expiresAt <= t)} |-> store[c]]

\* The records the periodic sweep keeps at time t
Swept(store, t) ==
    [c \in {k \in DOMAIN store : ~ (store[k].expiresAt < t)} |-> store[c]]

\* setInterval(..., 5 * 60 * 1000): delete the expired codes
SweepRoutes ==
    /\ impl = "routes"
    /\ authCodes' = Swept(authCodes, now)
    /\ last' = Resp("sweep", 0, Absent, Absent)
    /\ UNCHANGED <<issuedStates, nextId, minted, okCount>>
    /\ RoutesFrame

\* Time passes
TickRoutes ==
    /\ impl = "routes"
    /\ now < MaxTimeRoutes
    /\ now' = now + 1
    /\ UNCHANGED <<impl, authCodes, issuedStates, oauthClients,
                   pendingAuthorizations, authorizationCodes, inflight, nextId,
                   minted, okCount, passCount, last, authorized, stateStore, codeStore,
          stateStoreAuthorize, codeStoreToken, fact_meal_macros>>

\* A JSON value of a request body as the register handler tests it: undefined,
\* a (non-empty) string, or an array of strings
Undefined == [type |-> "undefined", items |-> <<>>]
Str(text) == [type |-> "string", items |-> <<text>>]
Arr(items) == [type |-> "array", items |-> items]
\* !v of such a value: arrays are truthy, the empty one included
TruthyJson(v) == v.type # "undefined"

\* The bodies POST /oauth/register of routes/oauth.js is called with
RegisterReq(uris, grants, method) ==
    [client_name |-> "app", redirect_uris |-> uris, grant_types |-> grants,
     token_endpoint_auth_method |-> method]

RegisterRequestsRoutes ==
    { RegisterReq(u, Undefined, Absent) :
        u \in {Undefined, Str("https://app/cb"), Arr(<<>>), Arr(<<"https://app/cb">>)} }
    \cup { RegisterReq(u, Arr(<<"authorization_code", "password">>), "private_key_jwt") :
             u \in {Str("https://app/cb"), Arr(<<"https://app/cb">>)} }
    \cup { RegisterReq(Arr(<<"https://app/cb">>), g, Absent) :
             g \in {Arr(<<>>), Arr(<<"authorization_code", "refresh_token">>),
                    Arr(<<"password">>), Str("password")} }
    \cup { RegisterReq(Arr(<<"https://app/cb">>), Arr(<<"authorization_code">>), m) :
             m \in {"none", "client_secret_post", "client_secret_basic",
                    "private_key_jwt"} }

\* A registrar that also takes the password grant
AllowedGrantTypesWithPassword == {"authorization_code", "refresh_token", "password"}

\* const allowedGrantTypes
AllowedGrantTypes == {"authorization_code", "refresh_token"}

\* const allowedAuthMethods
AllowedAuthMethods == {"none", "client_secret_post", "client_secret_basic"}

\* No registration document
NoRegistration == [client_id |-> Absent, client_secret |-> Absent,
                   grant_types |-> <<>>, token_endpoint_auth_method |-> Absent]

\* A registrar that hands a secret to every client
IssuesSecretAlways(requestedAuthMethod) == TRUE

\* requestedAuthMethod === 'client_secret_post' || ... === 'client_secret_basic'
IssuesSecret(requestedAuthMethod) ==
    requestedAuthMethod \in {"client_secret_post", "client_secret_basic"}

\* What becomes of an exception thrown out of the async handler: the framework
\* answers 500, or the promise is rejected unhandled and no response is sent
ThrownOutcomes ==
    { Resp("register", 500, Absent, "TypeError"),
      Resp("register", 0, Absent, "unhandled rejection") }

\* router.post('/oauth/register'): the response to body q and the registration
\* document in it, clientId and clientSecret being the random values the handler
\* draws and thrown the fate of an exception
RegisterRoutesResult(q, clientId, clientSecret, thrown) ==
    LET requestedGrantTypes == IF TruthyJson(q.grant_types) THEN q.grant_types
                               ELSE Arr(<<"authorization_code">>)
        invalidGrantTypes == SelectSeq(requestedGrantTypes.items,
                                       LAMBDA gt : gt \notin AllowedGrantTypes)
        requestedAuthMethod == IF Truthy(q.token_endpoint_auth_method)
                               THEN q.token_endpoint_auth_method ELSE "none"
    IN  IF \/ ~TruthyJson(q.redirect_uris)
           \/ q.redirect_uris.type # "array"
           \/ Len(q.redirect_uris.items) = 0
        THEN [resp |-> Resp("register", 400, "invalid_redirect_uri",
                            "redirect_uris is required and must be a non-empty array"),
              registration |-> NoRegistration]
        ELSE IF requestedGrantTypes.type # "array"
        THEN [resp |-> thrown, registration |-> NoRegistration]
        ELSE IF Len(invalidGrantTypes) > 0
        THEN [resp |-> Resp("register", 400, "invalid_grant_type",
                            "Unsupported grant types"),
              registration |-> NoRegistration]
        ELSE IF requestedAuthMethod \notin AllowedAuthMethods
        THEN [resp |-> Resp("register", 400, "invalid_client_metadata",
                            "Unsupported token_endpoint_auth_method"),
              registration |-> NoRegistration]
        ELSE LET registrationResponse ==
                     [client_id |-> clientId,
                      client_secret |-> IF IssuesSecret(requestedAuthMethod)
                                        THEN clientSecret ELSE Absent,
                      grant_types |-> requestedGrantTypes.items,
                      token_endpoint_auth_method |-> requestedAuthMethod]
             IN  [resp |-> [Resp("register", 201, Absent, Absent)
                              EXCEPT !.redirect = clientId,
                                     !.body = registrationResponse],
                  registration |-> registrationResponse]

\* crypto.randomBytes values of a registration
RandomClientIds == {"mcp_1"}
RandomClientSecrets == {"k1"}

\* One POST /oauth/register request; the handler keeps nothing
RegisterRoutes ==
    /\ impl = "routes"
    /\ \E q \in RegisterRequestsRoutes, clientId \in RandomClientIds,
          clientSecret \in RandomClientSecrets, thrown \in ThrownOutcomes :
         last' = RegisterRoutesResult(q, clientId, clientSecret, thrown).resp
    /\ UNCHANGED <<authCodes, issuedStates, nextId, minted, okCount>>
    /\ RoutesFrame

RoutesNext ==
    \/ AuthorizeRoutes
    \/ RegisterRoutes
    \/ CallbackPostRoutes
    \/ CallbackGetRoutes
    \/ TokenRoutes
    \/ SweepRoutes
    \/ TickRoutes

-----------------------------------------------------------------------------
(* src/server.js *)

\* expiresAt: Date.now() + 60000, in units of 1 minute
CodeExpiryServer == 1
\* expires_in of the token response
ExpiresInServer == 3600

\* crypto.randomUUID() of the n-th registration
ClientIdOf(n) == <<"c1", "c2", "c3">>[n]

\* redirect_uris of a registration body: missing, not an array, or an array
RegisterRequests ==
    { [client_name |-> "app", kind |-> "array", redirect_uris |-> {"https://app/cb"}],
      [client_name |-> Absent, kind |-> "array",
       redirect_uris |-> {"https://app/cb", "not a url"}],
      [client_name |-> "app", kind |-> "array", redirect_uris |-> {}],
      [client_name |-> "app", kind |-> "string", redirect_uris |-> {}],
      [client_name |-> "app", kind |-> "absent", redirect_uris |-> {}] }

\* A registrar that keeps the latest client only
StoreClientReplacing(clients, clientId, registration) == clientId :> registration

\* oauthClients.set(clientId, registration)
StoreClient(clients, clientId, registration) == clientId :> registration @@ clients

\* server.post('/oauth/register'): the response to body q and the clients the
\* handler leaves, clientId being the UUID it draws
RegisterServerResult(clients, q, clientId, t) ==
    IF q.kind # "array" \/ q.redirect_uris = {}
    THEN [resp |-> Resp("register", 400, "invalid_request", "redirect_uris required"),
          clients |-> clients]
    ELSE [resp |-> [Resp("register", 200, Absent, Absent) EXCEPT !.redirect = clientId],
          clients |-> StoreClient(clients, clientId,
                                  [clientId |-> clientId,
                                   redirectUris |-> q.redirect_uris,
                                   clientName |-> IF Truthy(q.client_name)
                                                  THEN q.client_name ELSE "MCP Client",
                                   createdAt |-> t])]

ServerFrame == UNCHANGED <<impl, now, authCodes, stateStore, codeStore,
          stateStoreAuthorize, codeStoreToken, fact_meal_macros>>

RegisterServer ==
    /\ impl = "server"
    /\ \E q \in RegisterRequests :
         LET clientId == ClientIdOf(Cardinality(DOMAIN oauthClients) + 1)
             r == RegisterServerResult(oauthClients, q, clientId, now)
         IN  /\ r.resp.status = 200 => Cardinality(DOMAIN oauthClients) < MaxClients
             /\ oauthClients' = r.clients
             /\ last' = r.resp
    /\ UNCHANGED <<issuedStates, pendingAuthorizations, authorizationCodes, inflight,
                   nextId, minted, okCount, passCount, authorized>>
    /\ ServerFrame

\* The queries GET /oauth/authorize is called with
AuthorizeRequestsServer(clients) ==
    { AuthReq(c, r, "code", st, Absent, "d1", "S256") :
        c \in DOMAIN clients \cup {"c9", Absent},
        r \in {"https://app/cb", "not a url", "https://evil/cb", Absent},
        st \in {"s1", Absent} }
    \cup { AuthReq(c, "https://app/cb", rt, "s1", Absent, ch, m) :
             c \in DOMAIN clients,
             rt \in {"code", "token", Absent},
             ch \in {"d1", Absent},
             m \in {"S256", "plain", Absent} }

\* An authorize that takes any redirect_uri
RedirectUriRegisteredAny(client, redirect_uri) == TRUE

\* client.redirectUris.includes(redirect_uri)
RedirectUriRegistered(client, redirect_uri) == redirect_uri \in client.redirectUris

\* server.get('/oauth/authorize'): the response to query q at time t and the
\* pending authorizations the handler leaves, internalState being the UUID it draws
AuthorizeServerResult(clients, pending, q, internalState, t) ==
    IF q.response_type # "code"
    THEN [resp |-> Resp("authorize", 400, Absent, "Only authorization code flow is supported"),
          pending |-> pending]
    ELSE IF ~Truthy(q.client_id) \/ ~Truthy(q.redirect_uri)
    THEN [resp |-> Resp("authorize", 400, Absent, "Missing required parameters"),
          pending |-> pending]
    ELSE IF ~Truthy(q.code_challenge) \/ q.code_challenge_method # "S256"
    THEN [resp |-> Resp("authorize", 400, Absent, "PKCE with S256 is required"),
          pending |-> pending]
    ELSE IF q.client_id \notin DOMAIN clients
    THEN [resp |-> Resp("authorize", 400, Absent, "Invalid client_id"),
          pending |-> pending]
    ELSE IF ~RedirectUriRegistered(clients[q.client_id], q.redirect_uri)
    THEN [resp |-> Resp("authorize", 400, Absent, "Invalid redirect_uri"),
          pending |-> pending]
    ELSE [resp |-> [Resp("authorize", 302, Absent, "supabase authorize")
                      EXCEPT !.code = internalState],
          pending |-> internalState :> [clientId |-> q.client_id,
                                        redirectUri |-> q.redirect_uri,
                                        codeChallenge |-> q.code_challenge,
                                        codeChallengeMethod |-> q.code_challenge_method,
                                        mcpState |-> q.state,
                                        createdAt |-> t] @@ pending]

AuthorizeServer ==
    /\ impl = "server"
    /\ \E q \in AuthorizeRequestsServer(oauthClients) :
         LET internalState == Cardinality(issuedStates) + 1
             r == AuthorizeServerResult(oauthClients, pendingAuthorizations, q,
                                        internalState, now)
         IN  /\ r.resp.status = 302 => Cardinality(issuedStates) < MaxAuthorize
             /\ pendingAuthorizations' = r.pending
             /\ issuedStates' = IF r.resp.status = 302
                                THEN issuedStates \cup {internalState} ELSE issuedStates
             /\ last' = r.resp
             /\ authorized' = IF r.resp.status = 302
                               THEN internalState :> q @@ authorized ELSE authorized
    /\ UNCHANGED <<oauthClients, authorizationCodes, inflight, nextId, minted,
                   okCount, passCount>>
    /\ ServerFrame

\* A state token no authorize ever issued; token 0 stands for a missing state
UnknownState == MaxAuthorize + 1

\* The queries GET /oauth/callback is called with
CallbackRequestsServer ==
    { CallbackReq(st, c, Absent, Absent, err) :
        st \in 0..UnknownState, c \in {"sc", Absent}, err \in {"access_denied", Absent} }

\* A callback that leaves the pending authorization in place across its await
TakePendingLate(pending, internalState) == pending

\* pendingAuthorizations.delete(internalState), right after the lookup
TakePending(pending, internalState) == Without(pending, internalState)

\* server.get('/oauth/callback') up to its await: the checks, the lookup and the
\* delete.  passed says that the request goes on to the upstream exchange, holding
\* the pending record in a local.
CallbackServerLookup(pending, q) ==
    IF Truthy(q.error)
    THEN [passed |-> FALSE, pending |-> pending,
          resp |-> Resp("callback", 400, Absent, "Authentication failed")]
    ELSE IF ~Truthy(q.code)
    THEN [passed |-> FALSE, pending |-> pending,
          resp |-> Resp("callback", 400, Absent, "Missing authorization code from Supabase")]
    ELSE IF q.state = 0
    THEN [passed |-> FALSE, pending |-> pending,
          resp |-> Resp("callback", 400, Absent, "Missing state parameter")]
    ELSE IF q.state \notin DOMAIN pending
    THEN [passed |-> FALSE, pending |-> pending,
          resp |-> Resp("callback", 400, Absent, "Invalid or expired authorization request")]
    ELSE [passed |-> TRUE, pending |-> TakePending(pending, q.state),
          resp |-> Resp("callback", 0, Absent, "await exchangeCodeForSession")]

\* history of the requests that got past the lookup, per state token, capped at 2
Passed(cnt, st) == IF cnt[st] < 2 THEN [cnt EXCEPT ![st] = @ + 1] ELSE cnt

\* One GET /oauth/callback request, up to await exchangeCodeForSession()
CallbackServer ==
    /\ impl = "server"
    /\ \E q \in CallbackRequestsServer :
         LET r == CallbackServerLookup(pendingAuthorizations, q)
         IN  /\ pendingAuthorizations' = r.pending
             /\ IF r.passed
                THEN /\ Len(inflight) < MaxInflightServer
                     /\ inflight' = Append(inflight,
                                           [state |-> q.state, passedAt |-> now,
                                            pending |-> pendingAuthorizations[q.state]])
                     /\ passCount' = Passed(passCount, q.state)
                     /\ UNCHANGED last
                ELSE /\ last' = [r.resp EXCEPT !.stateToken = q.state]
                     /\ UNCHANGED <<inflight, passCount>>
    /\ UNCHANGED <<issuedStates, oauthClients, authorizationCodes, nextId, minted, okCount, authorized>>
    /\ ServerFrame

RemoveAt(seq, i) == SubSeq(seq, 1, i - 1) \o SubSeq(seq, i + 1, Len(seq))

\* The callback resumes with sessionError || !sessionData?.session
CallbackFailServer ==
    /\ impl = "server"
    /\ \E i \in 1..Len(inflight) :
         /\ inflight' = RemoveAt(inflight, i)
         /\ last' = Resp("callback", 500, Absent, "Failed to exchange code for session")
    /\ UNCHANGED <<issuedStates, oauthClients, pendingAuthorizations, authorizationCodes,
                   nextId, minted, okCount, passCount, authorized>>
    /\ ServerFrame

\* server.get('/oauth/callback') after its await, with the session of the
\* upstream: store the code, then build the redirect (new URL() may throw)
CallbackServerMint(store, f, up, t, authorizationCode) ==
    LET pending == f.pending
        stored == authorizationCode :>
                    [clientId |-> pending.clientId, userId |-> UserOf(up.access_token),
                     codeChallenge |-> pending.codeChallenge,
                     redirectUri |-> pending.redirectUri,
                     accessToken |-> up.access_token,
                     expiresAt |-> t + CodeExpiryServer] @@ store
    IN  IF UrlParses(pending.redirectUri)
        THEN [resp |-> [Resp("callback", 302, Absent, "redirect")
                          EXCEPT !.code = authorizationCode,
                                 !.redirect = pending.redirectUri,
                                 !.state = [NoState EXCEPT !.clientState = pending.mcpState]],
              store |-> stored]
        ELSE [resp |-> Resp("callback", 500, Absent, "Callback processing failed"),
              store |-> stored]

\* The window after which the specification wants a pending authorization gone:
\* 10 minutes
PendingWindowServer == 10 * CodeExpiryServer

\* The instants at which the clock of the server run is read: the first minutes,
\* and an instant past the 10-minute window of everything created in them
TimePointsServer == (0..MaxTimeServer) \cup {MaxTimeServer + PendingWindowServer + 1}

\* The callback resumes with a session
CallbackMintServer ==
    /\ impl = "server"
    /\ nextId <= MaxIds
    /\ \E t \in TimePointsServer : t > now + CodeExpiryServer
    /\ \E i \in 1..Len(inflight) :
         LET up == UpstreamSession(AccessTokenOf(nextId))
             r == CallbackServerMint(authorizationCodes, inflight[i], up, now, nextId)
         IN  /\ inflight' = RemoveAt(inflight, i)
             /\ authorizationCodes' = r.store
             /\ nextId' = nextId + 1
             /\ minted' = nextId :> [accessToken |-> up.access_token,
                                     refreshToken |-> Absent,
                                     state |-> inflight[i].state] @@ minted
             /\ last' = r.resp
    /\ UNCHANGED <<issuedStates, oauthClients, pendingAuthorizations, okCount, passCount, authorized>>
    /\ ServerFrame

\* The bodies POST /oauth/token is called with
TokenRequestsServer ==
    { TokenReq("authorization_code", c, r, v, cl) :
        c \in 0..UnknownCode,
        r \in {"https://app/cb", "https://app/cb/", Absent},
        v \in {"v1", "d1", Absent},
        cl \in {"c1", "c2", Absent} }
    \cup { TokenReq("refresh_token", c, "https://app/cb", "v1", "c1") : c \in 0..UnknownCode }

\* server.post('/oauth/token'): the response to body q at time t and the store
\* the handler leaves
TokenServerResult(store, q, t) ==
    IF q.grant_type # "authorization_code"
    THEN [resp |-> TokenError("unsupported_grant_type", Absent), store |-> store]
    ELSE IF q.code = 0 \/ ~Truthy(q.redirect_uri) \/ ~Truthy(q.client_id)
            \/ ~Truthy(q.code_verifier)
    THEN [resp |-> TokenError("invalid_request", "Missing required parameters"),
          store |-> store]
    ELSE IF q.code \notin DOMAIN store
    THEN [resp |-> TokenError("invalid_grant", "Invalid or expired code"), store |-> store]
    ELSE LET authCode == CodeData(store, q.code)
         IN
         IF authCode.expiresAt < t
         THEN [resp |-> TokenError("invalid_grant", "Code expired"),
               store |-> Without(store, q.code)]
         ELSE IF authCode.clientId # q.client_id
                 \/ ~SameRedirectUri(authCode.redirectUri, q.redirect_uri)
         THEN [resp |-> TokenError("invalid_grant", "Client or redirect URI mismatch"),
               store |-> store]
         ELSE IF S256(q.code_verifier) # authCode.codeChallenge
         THEN [resp |-> TokenError("invalid_grant", "PKCE verification failed"),
               store |-> store]
         ELSE [resp |-> [Resp("token", 200, Absent, Absent)
                           EXCEPT !.body = [access_token |-> authCode.accessToken,
                                            token_type |-> "Bearer",
                                            expires_in |-> ExpiresInServer,
                                            refresh_token |-> Absent,
                                            scope |-> Absent]],
               store |-> ConsumeCode(store, q.code)]

\* One POST /oauth/token request
TokenServer ==
    /\ impl = "server"
    /\ \E q \in TokenRequestsServer :
         LET r == TokenServerResult(authorizationCodes, q, now)
         IN  /\ authorizationCodes' = r.store
             /\ last' = [r.resp EXCEPT !.code = q.code]
             /\ okCount' = Counted(okCount, r.resp, q.code)
    /\ UNCHANGED <<issuedStates, oauthClients, pendingAuthorizations, inflight, nextId,
                   minted, passCount, authorized>>
    /\ ServerFrame

\* setInterval(..., 60000): delete the expired codes; pendingAuthorizations is
\* not visited
SweepServer ==
    /\ impl = "server"
    /\ authorizationCodes' = Swept(authorizationCodes, now)
    /\ last' = Resp("sweep", 0, Absent, Absent)
    /\ UNCHANGED <<issuedStates, oauthClients, pendingAuthorizations, inflight, nextId,
                   minted, okCount, passCount, authorized>>
    /\ ServerFrame

\* Time passes
TickServer ==
    /\ impl = "server"
    /\ \E t \in TimePointsServer :
         /\ t > now
         /\ \A u \in TimePointsServer : u > now => t <= u
         /\ now' = t
    /\ UNCHANGED <<impl, authCodes, issuedStates, oauthClients, pendingAuthorizations,
                   authorizationCodes, inflight, nextId, minted, okCount, passCount, last,
                   authorized, stateStore, codeStore,
          stateStoreAuthorize, codeStoreToken, fact_meal_macros>>

ServerNext ==
    \/ RegisterServer
    \/ AuthorizeServer
    \/ CallbackServer
    \/ CallbackFailServer
    \/ CallbackMintServer
    \/ TokenServer
    \/ SweepServer
    \/ TickServer

-----------------------------------------------------------------------------
(* src/unnamed/part_005: the callback of the serverless variant *)

\* expiresAt: Date.now() + (10 * 60 * 1000), in units of 10 minutes
CodeExpiryServerless == 1
\* expires_in of the token function
ExpiresInServerless == 3600

ServerlessReq(method, state, at, rt, err) ==
    [method |-> method, state |-> state, access_token |-> at, refresh_token |-> rt,
     error |-> err]

\* The queries the callback function is called with; state 0 stands for a
\* missing state
CallbackRequestsServerless ==
    { ServerlessReq(m, st, at, RefreshOf("at1"), err) :
        m \in {"GET", "POST"}, st \in 0..1, at \in {"at1", Absent},
        err \in {"access_denied", Absent} }

\* What authorize.js would keep for a state: the request of the client
OAuthRequestServerless(redirectUri) ==
    [clientState |-> "s1", redirectUri |-> redirectUri, clientId |-> "A",
     scope |-> "meals", codeChallenge |-> "d1", codeChallengeMethod |-> "S256"]

\* Contents of stateStore the handler is examined on: empty, as the module
\* creates it, and holding one state
StateStoresServerless ==
    { EmptyMap, 1 :> OAuthRequestServerless("https://app/cb"),
      1 :> OAuthRequestServerless("not a url") }

\* handler, from the lookup of the state on: the response and the stores the
\* handler leaves
CallbackServerlessAfterError(states, codes, q, t, authCode) ==
    IF q.state = 0 \/ ~Truthy(q.access_token)
    THEN [resp |-> Resp("callback_fn", 400, "invalid_request",
                        "Missing state or token from Supabase"),
          stateStore |-> states, codeStore |-> codes]
    ELSE IF q.state \notin DOMAIN states
    THEN [resp |-> Resp("callback_fn", 400, "invalid_state",
                        "State parameter not found or expired"),
          stateStore |-> states, codeStore |-> codes]
    ELSE LET oauthRequest == states[q.state]
             stored == authCode :>
                         [accessToken |-> q.access_token,
                          refreshToken |-> q.refresh_token,
                          redirectUri |-> oauthRequest.redirectUri,
                          clientId |-> oauthRequest.clientId,
                          scope |-> oauthRequest.scope,
                          codeChallenge |-> oauthRequest.codeChallenge,
                          codeChallengeMethod |-> oauthRequest.codeChallengeMethod,
                          timestamp |-> t,
                          expiresAt |-> t + CodeExpiryServerless] @@ codes
         IN  IF UrlParses(oauthRequest.redirectUri)
             THEN [resp |-> [Resp("callback_fn", 302, Absent, "redirect")
                               EXCEPT !.code = authCode,
                                      !.redirect = oauthRequest.redirectUri],
                   stateStore |-> Without(states, q.state), codeStore |-> stored]
             ELSE [resp |-> Resp("callback_fn", 500, Absent, "Invalid URL"),
                   stateStore |-> Without(states, q.state), codeStore |-> stored]

\* A handler that does not look at the error parameter
CallbackServerlessIgnoringError(states, codes, q, t, authCode) ==
    CallbackServerlessAfterError(states, codes, q, t, authCode)

\* export default async function handler(req, res)
CallbackServerlessResult(states, codes, q, t, authCode) ==
    IF q.method # "GET"
    THEN [resp |-> Resp("callback_fn", 405, "Method not allowed", Absent),
          stateStore |-> states, codeStore |-> codes]
    ELSE IF Truthy(q.error)
    THEN [resp |-> Resp("callback_fn", 400, Absent, "Authentication Failed"),
          stateStore |-> states, codeStore |-> codes]
    ELSE CallbackServerlessAfterError(states, codes, q, t, authCode)

\* One invocation of the callback function
CallbackServerless ==
    /\ impl = "serverless"
    /\ \E q \in CallbackRequestsServerless :
         LET r == CallbackServerlessResult(stateStore, codeStore, q, now, nextId)
         IN  /\ DOMAIN r.codeStore # DOMAIN codeStore => nextId <= MaxIds
             /\ stateStore' = r.stateStore
             /\ codeStore' = r.codeStore
             /\ nextId' = IF DOMAIN r.codeStore = DOMAIN codeStore THEN nextId
                          ELSE nextId + 1
             /\ last' = [r.resp EXCEPT !.stateToken = q.state]
    /\ UNCHANGED <<impl, now, authCodes, issuedStates, oauthClients,
                   pendingAuthorizations, authorizationCodes, inflight, minted,
                   okCount, passCount, authorized, stateStoreAuthorize, codeStoreToken, fact_meal_macros>>

\* The queries the authorize function is called with
AuthorizeRequestsServerless ==
    { [method |-> m, query |-> AuthReq("A", r, rt, st, "meals", "d1", "S256")] :
        m \in {"GET", "POST"}, r \in {"https://app/cb", Absent},
        rt \in {"code", "token"}, st \in {"s1", Absent} }

\* api/oauth/authorize.js: the response to request q at time t and the state
\* store the function leaves, authState being the random key it draws
AuthorizeServerlessResult(states, q, t, authState) ==
    IF q.method # "GET"
    THEN [resp |-> Resp("authorize_fn", 405, "Method not allowed", Absent),
          stateStore |-> states]
    ELSE IF \/ ~Truthy(q.query.redirect_uri) \/ ~Truthy(q.query.response_type)
            \/ ~Truthy(q.query.state)
    THEN [resp |-> Resp("authorize_fn", 400, "invalid_request",
                        "Missing required OAuth parameters"),
          stateStore |-> states]
    ELSE IF q.query.response_type # "code"
    THEN [resp |-> Resp("authorize_fn", 400, "unsupported_response_type",
                        "Only code response type is supported"),
          stateStore |-> states]
    ELSE [resp |-> [Resp("authorize_fn", 302, Absent, "supabase authorize")
                      EXCEPT !.stateToken = authState],
          stateStore |-> authState :>
                           [clientState |-> q.query.state,
                            redirectUri |-> q.query.redirect_uri,
                            clientId |-> q.query.client_id,
                            scope |-> q.query.scope,
                            codeChallenge |-> q.query.code_challenge,
                            codeChallengeMethod |-> q.query.code_challenge_method,
                            timestamp |-> t] @@ states]

\* One invocation of the authorize function: it writes the stateStore of its
\* own module
AuthorizeServerless ==
    /\ impl = "serverless"
    /\ \E q \in AuthorizeRequestsServerless :
         LET authState == Cardinality(DOMAIN stateStoreAuthorize) + 1
             r == AuthorizeServerlessResult(stateStoreAuthorize, q, now, authState)
         IN  /\ r.resp.status = 302 =>
                  Cardinality(DOMAIN stateStoreAuthorize) < MaxAuthorize
             /\ stateStoreAuthorize' = r.stateStore
             /\ last' = r.resp
    /\ UNCHANGED <<impl, now, authCodes, issuedStates, oauthClients,
                   pendingAuthorizations, authorizationCodes, inflight, nextId, minted,
                   okCount, passCount, authorized, stateStore, codeStore, codeStoreToken, fact_meal_macros>>

\* The bodies the token function is called with
TokenRequestsServerless ==
    { [method |-> m, body |-> TokenReq(g, c, r, v, "A")] :
        m \in {"POST", "GET"}, g \in {"authorization_code", "refresh_token"},
        c \in 0..UnknownCode, r \in {"https://app/cb", Absent},
        v \in {"v1", "d1", Absent} }

\* unnamed/part_004: the response to request q and the code store the function
\* leaves
TokenServerlessResult(codes, q) ==
    IF q.method # "POST"
    THEN [resp |-> Resp("token_fn", 405, "Method not allowed", Absent), codeStore |-> codes]
    ELSE IF q.body.grant_type # "authorization_code"
    THEN [resp |-> Resp("token_fn", 400, "unsupported_grant_type",
                        "Only authorization_code grant type is supported"),
          codeStore |-> codes]
    ELSE IF q.body.code = 0
    THEN [resp |-> Resp("token_fn", 400, "invalid_request", "Missing authorization code"),
          codeStore |-> codes]
    ELSE IF q.body.code \notin DOMAIN codes
    THEN [resp |-> Resp("token_fn", 400, "invalid_grant",
                        "Authorization code is invalid or expired"),
          codeStore |-> codes]
    ELSE LET codeData == codes[q.body.code]
         IN  IF Truthy(codeData.codeChallenge) /\ ~Truthy(q.body.code_verifier)
             THEN [resp |-> Resp("token_fn", 400, "invalid_request",
                                 "code_verifier required for PKCE flow"),
                   codeStore |-> codes]
             ELSE IF Truthy(codeData.codeChallenge)
                     /\ S256(q.body.code_verifier) # codeData.codeChallenge
             THEN [resp |-> Resp("token_fn", 400, "invalid_grant", "PKCE verification failed"),
                   codeStore |-> codes]
             ELSE IF codeData.redirectUri # q.body.redirect_uri
             THEN [resp |-> Resp("token_fn", 400, "invalid_grant",
                                 "redirect_uri does not match"),
                   codeStore |-> codes]
             ELSE [resp |-> [Resp("token_fn", 200, Absent, Absent)
                               EXCEPT !.body =
                                   [access_token |-> codeData.accessToken,
                                    token_type |-> "Bearer",
                                    expires_in |-> ExpiresInServerless,
                                    refresh_token |-> codeData.refreshToken,
                                    scope |-> IF Truthy(codeData.scope)
                                              THEN codeData.scope ELSE "openid"]],
                   codeStore |-> Without(codes, q.body.code)]

\* One invocation of the token function: it reads and writes the codeStore of
\* its own module
TokenServerless ==
    /\ impl = "serverless"
    /\ \E q \in TokenRequestsServerless :
         LET r == TokenServerlessResult(codeStoreToken, q)
         IN  /\ codeStoreToken' = r.codeStore
             /\ last' = [r.resp EXCEPT !.code = q.body.code]
    /\ UNCHANGED <<impl, now, authCodes, issuedStates, oauthClients,
                   pendingAuthorizations, authorizationCodes, inflight, nextId, minted,
                   okCount, passCount, authorized, stateStore, codeStore,
                   stateStoreAuthorize, fact_meal_macros>>

ServerlessNext == CallbackServerless \/ AuthorizeServerless \/ TokenServerless

-----------------------------------------------------------------------------
(* src/unnamed/part_010: the router that requires PKCE with S256 *)

\* The query strings GET /oauth/authorize of part_010 is called with
AuthorizeRequestsStrict ==
    { AuthReq("A", r, rt, st, "meals", ch, m) :
        r \in {"https://app/cb", Absent},
        rt \in {"code", "token", Absent},
        st \in {"s1", Absent},
        ch \in {"d1", Absent},
        m \in {"S256", "plain", Absent} }
    \cup { AuthReq(Absent, "https://app/cb", "code", "s2", Absent, "d1", "S256") }

\* router.get('/oauth/authorize') of part_010: the response to request q at time t
AuthorizeStrictResult(q, t) ==
    LET oauthState == [clientState |-> q.state,
                       redirectUri |-> q.redirect_uri,
                       clientId |-> IF Truthy(q.client_id) THEN q.client_id ELSE "mcp-client",
                       scope |-> IF Truthy(q.scope) THEN q.scope ELSE "openid",
                       codeChallenge |-> q.code_challenge,
                       codeChallengeMethod |-> q.code_challenge_method,
                       timestamp |-> t]
    IN  IF ~Truthy(q.redirect_uri) \/ ~Truthy(q.response_type) \/ ~Truthy(q.state)
        THEN Resp("authorize", 400, "invalid_request",
                  "Missing required OAuth parameters (redirect_uri, response_type, state)")
        ELSE IF q.response_type # "code"
        THEN Resp("authorize", 400, "unsupported_response_type",
                  "Only code response type is supported")
        ELSE IF ~Truthy(q.code_challenge) \/ q.code_challenge_method # "S256"
        THEN Resp("authorize", 400, "invalid_request",
                  "PKCE is required. Must include code_challenge with S256 method")
        ELSE [Resp("authorize", 302, Absent, "supabase authorize")
                 EXCEPT !.state = EncodeState(oauthState)]

\* One GET /oauth/authorize of part_010; the handler keeps nothing, the state it
\* encodes travels in the redirect
AuthorizeStrict ==
    /\ impl = "strict"
    /\ \E q \in AuthorizeRequestsStrict :
         LET r == AuthorizeStrictResult(q, now)
         IN  /\ last' = r
             /\ issuedStates' = IF r.status = 302 THEN issuedStates \cup {r.state}
                                ELSE issuedStates
    /\ UNCHANGED <<impl, now, authCodes, oauthClients,
                   pendingAuthorizations, authorizationCodes, inflight, nextId,
                   minted, okCount, passCount, authorized, stateStore, codeStore,
          stateStoreAuthorize, codeStoreToken, fact_meal_macros>>

StrictNext == AuthorizeStrict

-----------------------------------------------------------------------------
(* Discovery documents: src/unnamed/part_007 (the Express app that mounts
   routes/oauth.js), src/server.js, src/api/oauth.js (serverless function) *)

\* process.env.BASE_URL, the configured public address of the deployment
BASE_URL == "https://mcp.example"

\* The request headers a discovery handler can look at
DiscoveryHeaders ==
    [host : {"mcp.example", "evil.example"},
     x_forwarded_proto : {Absent, "http"},
     authorization : {Absent, "Bearer at1"}]

Document(fields) == [Resp("discovery", 200, Absent, Absent) EXCEPT !.body = fields]

\* part_007: app.get('/.well-known/oauth-protected-resource')
ProtectedResourceRoutes(headers) ==
    LET baseUrl == BASE_URL
    IN  Document([resource |-> <<baseUrl, "/mcp">>,
                  authorization_servers |-> <<baseUrl>>])

\* part_007: app.get('/.well-known/oauth-authorization-server')
AuthorizationServerRoutes(headers) ==
    LET baseUrl == BASE_URL
    IN  Document([issuer |-> baseUrl,
                  authorization_endpoint |-> <<baseUrl, "/oauth/authorize">>,
                  token_endpoint |-> <<baseUrl, "/oauth/token">>,
                  registration_endpoint |-> <<baseUrl, "/oauth/register">>,
                  response_types_supported |-> <<"code">>,
                  grant_types_supported |-> <<"authorization_code", "refresh_token">>,
                  code_challenge_methods_supported |-> <<"S256">>,
                  token_endpoint_auth_methods_supported |->
                      <<"none", "client_secret_post", "client_secret_basic">>])

\* server.js: server.get('/.well-known/oauth-authorization-server'); the auth
\* middleware lets every path under /.well-known through
AuthorizationServerServer(headers) ==
    Document([issuer |-> BASE_URL,
              authorization_endpoint |-> <<BASE_URL, "/oauth/authorize">>,
              token_endpoint |-> <<BASE_URL, "/oauth/token">>,
              registration_endpoint |-> <<BASE_URL, "/oauth/register">>,
              response_types_supported |-> <<"code">>,
              grant_types_supported |-> <<"authorization_code">>,
              code_challenge_methods_supported |-> <<"S256">>,
              token_endpoint_auth_methods_supported |-> <<"none">>])

\* api/oauth.js: the metadata function
MetadataServerless(method, headers) ==
    IF method # "GET"
    THEN [Resp("discovery", 405, "Method not allowed", Absent) EXCEPT !.body = <<>>]
    ELSE LET protocol == IF Truthy(headers.x_forwarded_proto)
                         THEN headers.x_forwarded_proto ELSE "https"
             host == headers.host
             baseUrl == <<protocol, "://", host>>
         IN  Document([issuer |-> baseUrl,
                       authorization_endpoint |-> <<baseUrl, "/api/oauth/authorize">>,
                       token_endpoint |-> <<baseUrl, "/api/oauth/token">>,
                       response_types_supported |-> <<"code">>,
                       grant_types_supported |-> <<"authorization_code">>,
                       code_challenge_methods_supported |-> <<"S256", "plain">>,
                       token_endpoint_auth_methods_supported |-> <<"none">>,
                       scopes_supported |-> <<"openid">>])

\* The documents a GET with the given headers can be answered with by the
\* program the run executes
DiscoveryAnswers(headers) ==
    CASE impl = "routes" -> {ProtectedResourceRoutes(headers),
                             AuthorizationServerRoutes(headers)}
      [] impl = "server" -> {AuthorizationServerServer(headers)}
      [] impl = "serverless" -> {MetadataServerless("GET", headers)}
      [] OTHER -> {}

\* One GET of a discovery document of part_007
DiscoveryRoutes ==
    /\ impl = "routes"
    /\ \E headers \in DiscoveryHeaders : last' \in DiscoveryAnswers(headers)
    /\ UNCHANGED <<authCodes, issuedStates, nextId, minted, okCount>>
    /\ RoutesFrame

\* One GET of the discovery document of server.js
DiscoveryServer ==
    /\ impl = "server"
    /\ \E headers \in DiscoveryHeaders : last' = AuthorizationServerServer(headers)
    /\ UNCHANGED <<issuedStates, oauthClients, pendingAuthorizations, authorizationCodes,
                   inflight, nextId, minted, okCount, passCount, authorized>>
    /\ ServerFrame

\* One request to the metadata function
DiscoveryServerless ==
    /\ impl = "serverless"
    /\ \E headers \in DiscoveryHeaders, method \in {"GET", "POST"} :
         last' = MetadataServerless(method, headers)
    /\ UNCHANGED <<impl, now, authCodes, issuedStates, oauthClients,
                   pendingAuthorizations, authorizationCodes, inflight, nextId, minted,
                   okCount, passCount, authorized, stateStore, codeStore,
          stateStoreAuthorize, codeStoreToken, fact_meal_macros>>

DiscoveryNext == DiscoveryRoutes \/ DiscoveryServer \/ DiscoveryServerless

-----------------------------------------------------------------------------
(* MCP tool calls: src/server.js (auth middleware, save_meal_macros,
   query_meal_data) *)

\* The users of the upstream and the bearer tokens a request can carry
Users == {"u1", "u2"}
BearerTokens == {Absent, "at1", "at2", "bad"}

\* supabase.auth.getUser(accessToken): the user of a valid token, none otherwise
GetUser(accessToken) ==
    IF accessToken \in {"at1", "at2"} THEN UserOf(accessToken) ELSE Absent

\* A row of fact_meal_macros: the user_id column, and (history) the user the
\* request that wrote it was verified for
MealRow(user_id, verified) == [user_id |-> user_id, by |-> verified]

\* A SQL text as the server looks at it: its first word, the table it names,
\* a user_id it mentions in its WHERE clause, and the user the server wrapped
\* it for
Sql(verb, table, user_id) ==
    [verb |-> verb, table |-> table, user_id |-> user_id, scopedTo |-> Absent]

Queries ==
    { Sql(v, t, u) : v \in {"select", "delete"},
                     t \in {"fact_meal_macros", "other_table"},
                     u \in {Absent} \cup Users }

\* A scoping that wraps every query
ScopeEveryQuery(query, userId) == [query EXCEPT !.scopedTo = userId]

\* function scopeQueryToUser(query, userId)
scopeQueryToUser(query, userId) ==
    IF query.verb # "select" THEN query
    ELSE IF query.table # "fact_meal_macros" THEN query
    ELSE IF Truthy(query.user_id) THEN query
    ELSE [query EXCEPT !.scopedTo = userId]

\* The rows of fact_meal_macros a query reads or writes
RowsOf(query, table) ==
    IF query.table # "fact_meal_macros" THEN {}
    ELSE { row \in table :
             /\ Truthy(query.user_id) => row.user_id = query.user_id
             /\ Truthy(query.scopedTo) => row.user_id = query.scopedTo }

\* The JSON-RPC tools/call messages POST /mcp is called with
McpRequestsServer ==
    { [authorization |-> b, tool |-> "save_meal_macros", user_id |-> u,
       query |-> Sql(Absent, Absent, Absent)] : b \in BearerTokens, u \in {Absent} \cup Users }
    \cup { [authorization |-> b, tool |-> "query_meal_data", user_id |-> Absent,
             query |-> q] : b \in BearerTokens, q \in Queries }

\* A middleware that overwrites the caller's user_id
InjectUserIdAlways(user_id, userId) == userId

\* if (!params.arguments.user_id) params.arguments.user_id = userId
InjectUserId(user_id, userId) == IF ~Truthy(user_id) THEN userId ELSE user_id

\* No tool was called
NoCall == [tool |-> Absent, userId |-> Absent, user_id |-> Absent,
           query |-> Sql(Absent, Absent, Absent), rows |-> {}]

\* server.use(...) for POST /mcp followed by the tool: the response, what
\* reached the tool (in the body), and the table the call leaves.  inserted
\* says whether the upstream accepts the insert.
McpServerResult(table, q, inserted) ==
    LET userId == GetUser(q.authorization)
    IN  IF ~Truthy(q.authorization)
        THEN [resp |-> [Resp("mcp", 401, "Missing Authorization: Bearer <token>", Absent)
                          EXCEPT !.body = NoCall],
              table |-> table]
        ELSE IF ~Truthy(userId)
        THEN [resp |-> [Resp("mcp", 401, "Invalid or expired token", Absent)
                          EXCEPT !.body = NoCall],
              table |-> table]
        ELSE IF q.tool = "save_meal_macros"
        THEN LET user_id == InjectUserId(q.user_id, userId)
                 call == [NoCall EXCEPT !.tool = q.tool, !.userId = userId,
                                        !.user_id = user_id]
             IN  IF inserted
                 THEN [resp |-> [Resp("mcp", 200, Absent, "Meal saved successfully")
                                   EXCEPT !.body = call],
                       table |-> table \cup {MealRow(user_id, userId)}]
                 ELSE [resp |-> [Resp("mcp", 200, "isError", "Supabase error")
                                   EXCEPT !.body = call],
                       table |-> table]
        ELSE LET query == scopeQueryToUser(q.query, userId)
                 rows == RowsOf(query, table)
                 call == [NoCall EXCEPT !.tool = q.tool, !.userId = userId,
                                        !.query = query, !.rows = rows]
             IN  [resp |-> [Resp("mcp", 200, Absent, "Query Results") EXCEPT !.body = call],
                  table |-> IF query.verb = "select" THEN table ELSE table \ rows]

McpFrame == UNCHANGED <<impl, now, authCodes, issuedStates, oauthClients,
                        pendingAuthorizations, authorizationCodes, inflight, nextId,
                        minted, okCount, passCount, authorized, stateStore, codeStore,
                        stateStoreAuthorize, codeStoreToken>>

\* One POST /mcp tools/call request to server.js
McpCallServer ==
    /\ impl = "server_mcp"
    /\ \E q \in McpRequestsServer, inserted \in BOOLEAN :
         LET r == McpServerResult(fact_meal_macros, q, inserted)
         IN  /\ fact_meal_macros' = r.table
             /\ last' = r.resp
    /\ McpFrame

McpNext == McpCallServer

-----------------------------------------------------------------------------
(* The save_meal tool: src/src/tools/meals.js (called by routes/mcp.js) and
   src/api/mcp/index.js *)

\* A tools/call of save_meal: the bearer token of its request and a user_id the
\* caller may have put among the arguments
SaveMealRequests ==
    [authorization : BearerTokens, user_id : {Absent} \cup Users]

\* verifySupabaseToken returned undefined / null
NoAuthInfo == [token |-> Absent, userId |-> Absent]

\* verifySupabaseToken(bearerToken) of routes/mcp.js and of api/mcp/index.js
\* (where the id is authInfo.extra.userId)
VerifySupabaseToken(bearerToken) ==
    IF ~Truthy(bearerToken) THEN NoAuthInfo
    ELSE LET user == GetUser(bearerToken)
         IN  IF ~Truthy(user) THEN NoAuthInfo
             ELSE [token |-> bearerToken, userId |-> user]

\* A tool that prefers a user_id found among its arguments
SaveMealUserIdFromArgs(args, authInfo) ==
    IF Truthy(args.user_id) THEN args.user_id ELSE authInfo.userId

\* const userId = authInfo.userId (meals.js), const user_id =
\* extra.authInfo.extra.userId (api/mcp/index.js)
SaveMealUserId(args, authInfo) == authInfo.userId

\* What a save_meal call shows: the user the bearer token belongs to upstream,
\* the user_id the caller sent, the user_id the tool wrote
SaveMealCall(q, user_id) ==
    [tool |-> "save_meal", userId |-> GetUser(q.authorization), sent |-> q.user_id,
     user_id |-> user_id]

\* handler of save_meal in meals.js: the tool result and the table it leaves;
\* inserted says whether the upstream accepts the insert
SaveMealToolsResult(table, q, authInfo, inserted) ==
    IF ~Truthy(authInfo.token)
    THEN [resp |-> [Resp("save_meal", 200, "isError", "Authentication required")
                      EXCEPT !.body = SaveMealCall(q, Absent)],
          table |-> table]
    ELSE LET userId == SaveMealUserId(q, authInfo)
         IN  IF inserted
             THEN [resp |-> [Resp("save_meal", 200, Absent, "Meal saved successfully")
                               EXCEPT !.body = SaveMealCall(q, userId)],
                   table |-> table \cup {MealRow(userId, GetUser(authInfo.token))}]
             ELSE [resp |-> [Resp("save_meal", 200, "isError", "Database error")
                               EXCEPT !.body = SaveMealCall(q, userId)],
                   table |-> table]

\* handler of save_meal in api/mcp/index.js
SaveMealApiResult(table, q, authInfo, inserted) ==
    IF ~Truthy(authInfo.token)
    THEN [resp |-> [Resp("save_meal", 200, "isError", "Authentication required")
                      EXCEPT !.body = SaveMealCall(q, Absent)],
          table |-> table]
    ELSE LET user_id == SaveMealUserId(q, authInfo)
         IN  IF inserted
             THEN [resp |-> [Resp("save_meal", 200, Absent, "Meal saved successfully")
                               EXCEPT !.body = SaveMealCall(q, user_id)],
                   table |-> table \cup {MealRow(user_id, GetUser(authInfo.token))}]
             ELSE [resp |-> [Resp("save_meal", 200, "isError", "Database error")
                               EXCEPT !.body = SaveMealCall(q, user_id)],
                   table |-> table]

\* The save_meal of the program the run executes
SaveMealResult(table, q, authInfo, inserted) ==
    IF impl = "api_mcp" THEN SaveMealApiResult(table, q, authInfo, inserted)
    ELSE SaveMealToolsResult(table, q, authInfo, inserted)

\* The Authorization headers POST /mcp of routes/mcp.js is called with
Header(scheme, credentials) == [scheme |-> scheme, credentials |-> credentials]

\* req.headers.authorization is undefined
NoHeader == Header(Absent, Absent)

AuthorizationHeaders ==
    {NoHeader, Header("Bearer ", "at1"), Header("Bearer ", "at2"),
     Header("Bearer ", "bad"), Header("Bearer ", ""), Header("bearer ", "at1"),
     Header("Basic ", "at1")}

\* allTools of routes/mcp.js and a name that is none of them
AllTools == {"save_meal", "get_nutrition"}

\* tool.requiresAuth
RequiresAuth(tool) == tool = "save_meal"

\* The tools/call requests sent to POST /mcp
McpRequestsRoutes ==
    [authorization : AuthorizationHeaders,
     tool : AllTools \cup {"no_such_tool"},
     user_id : {Absent} \cup Users]

\* authHeader?.startsWith('Bearer ') ? authHeader.substring(7) : null
BearerToken(authHeader) ==
    IF authHeader # NoHeader /\ authHeader.scheme = "Bearer "
    THEN authHeader.credentials ELSE Absent

\* !bearerToken: null or the empty string
NoToken(bearerToken) == bearerToken \in {Absent, ""}

\* A handler that hands every request with a token to the transport
TokenRejectedNever(authInfo) == FALSE

\* !authInfo after verifySupabaseToken
TokenRejected(authInfo) == authInfo = NoAuthInfo

\* `${baseUrl}/.well-known/oauth-protected-resource`
ResourceMetadataUrl == <<BASE_URL, "/.well-known/oauth-protected-resource">>

\* res.setHeader('WWW-Authenticate', ...); res.status(401).json(...)
Unauthorized(error, description) ==
    [Resp("mcp", 401, error, description)
       EXCEPT !.body = [www_authenticate |->
                          [scheme |-> "Bearer", error |-> error,
                           error_description |-> description,
                           resource_metadata |-> ResourceMetadataUrl]]]

\* No tool handler was run
NoRun == [tool |-> Absent, authInfo |-> NoAuthInfo]

\* mcpServer.setRequestHandler(CallToolRequestSchema, ...) with authInfo the
\* value of authStorage.getStore(): the result, the table, and the tool handler
\* it ran with the auth info it passed
CallToolResult(table, q, authInfo, inserted) ==
    IF q.tool \notin AllTools
    THEN [resp |-> Resp("tools/call", 200, "error", "Unknown tool"),
          table |-> table, ran |-> NoRun]
    ELSE IF RequiresAuth(q.tool)
    THEN IF authInfo = NoAuthInfo
         THEN [resp |-> Resp("tools/call", 200, "isError", "Authentication required"),
               table |-> table, ran |-> NoRun]
         ELSE LET r == SaveMealToolsResult(table,
                           [authorization |-> authInfo.token, user_id |-> q.user_id],
                           authInfo, inserted)
              IN  [resp |-> r.resp, table |-> r.table,
                   ran |-> [tool |-> q.tool, authInfo |-> authInfo]]
    ELSE [resp |-> Resp(q.tool, 200, Absent, Absent), table |-> table,
          ran |-> [tool |-> q.tool, authInfo |-> NoAuthInfo]]

\* handleMcpRequest of routes/mcp.js: the response, the table, whether
\* transport.handleRequest was called, and the tool handler that ran
HandleMcpRequestResult(table, q, inserted) ==
    LET bearerToken == BearerToken(q.authorization)
        authInfo == VerifySupabaseToken(bearerToken)
    IN  IF NoToken(bearerToken)
        THEN [resp |-> Unauthorized("invalid_request",
                                    "No access token was provided in this request"),
              table |-> table, transport |-> FALSE, ran |-> NoRun]
        ELSE IF TokenRejected(authInfo)
        THEN [resp |-> Unauthorized("invalid_token",
                                    "The access token is invalid or expired"),
              table |-> table, transport |-> FALSE, ran |-> NoRun]
        ELSE LET r == CallToolResult(table, q, authInfo, inserted)
             IN  [resp |-> r.resp, table |-> r.table, transport |-> TRUE,
                  ran |-> r.ran]

\* One tools/call sent to POST /mcp of routes/mcp.js
SaveMealRoutes ==
    /\ impl = "routes_mcp"
    /\ \E q \in McpRequestsRoutes, inserted \in BOOLEAN :
         LET r == HandleMcpRequestResult(fact_meal_macros, q, inserted)
         IN  /\ fact_meal_macros' = r.table
             /\ last' = r.resp
    /\ McpFrame

\* One tools/call of save_meal through api/mcp/index.js
SaveMealApi ==
    /\ impl = "api_mcp"
    /\ \E q \in SaveMealRequests, inserted \in BOOLEAN :
         LET r == SaveMealApiResult(fact_meal_macros, q,
                                    VerifySupabaseToken(q.authorization), inserted)
         IN  /\ fact_meal_macros' = r.table
             /\ last' = r.resp
    /\ McpFrame

SaveMealNext == SaveMealRoutes \/ SaveMealApi

-----------------------------------------------------------------------------
(* The system *)

Init ==
    /\ impl \in {"routes", "server", "serverless", "strict",
                "server_mcp", "routes_mcp", "api_mcp"}
    /\ now = 0
    /\ authCodes = EmptyMap
    /\ issuedStates = {}
    /\ oauthClients = EmptyMap
    /\ pendingAuthorizations = EmptyMap
    /\ authorizationCodes = EmptyMap
    /\ inflight = <<>>
    /\ nextId = 1
    /\ minted = EmptyMap
    /\ okCount = [c \in 0..UnknownCode |-> 0]
    /\ passCount = [st \in 0..UnknownState |-> 0]
    /\ last = Resp("none", 0, Absent, Absent)
    /\ authorized = EmptyMap
    /\ stateStore = EmptyMap
    /\ codeStore = EmptyMap
    /\ stateStoreAuthorize = EmptyMap
    /\ codeStoreToken = EmptyMap
    /\ fact_meal_macros = {}

Next ==
    RoutesNext \/ ServerNext \/ ServerlessNext \/ StrictNext \/ DiscoveryNext \/ McpNext
    \/ SaveMealNext

Spec == Init /\ [][Next]_vars

\* The clock reaches every instant and the sweep timers fire; no request is
\* ever obliged to arrive
FairSpec ==
    /\ Spec
    /\ WF_vars(TickRoutes) /\ WF_vars(SweepRoutes)
    /\ WF_vars(TickServer) /\ WF_vars(SweepServer)

-----------------------------------------------------------------------------
(* Properties of the token endpoint, of whichever program the run executes *)

TokenStore == IF impl = "routes" THEN authCodes ELSE authorizationCodes

TokenRequests == IF impl = "routes" THEN TokenRequestsRoutes ELSE TokenRequestsServer

TokenResult(store, q, t) ==
    IF impl = "routes" THEN TokenRoutesResult(store, q, t)
    ELSE TokenServerResult(store, q, t)

Codes == 1..MaxIds

\* An exchange request that names every parameter of the grant
Complete(q) ==
    /\ q.grant_type = "authorization_code"
    /\ q.code # 0
    /\ Truthy(q.redirect_uri)
    /\ Truthy(q.client_id)
    /\ Truthy(q.code_verifier)

\* The request passes every check of the handler other than PKCE: the grant
\* type, the expiry, the redirect_uri and (server.js) the client_id
OtherChecksPass(q, rec) ==
    /\ q.grant_type = "authorization_code"
    /\ ~ (rec.expiresAt < now)
    /\ q.redirect_uri = rec.redirectUri
    /\ Truthy(q.redirect_uri)
    /\ impl = "server" => q.client_id = rec.clientId

\* The record was stored with method S256 (server.js stores no method: its
\* authorize accepts S256 only)
StoredWithS256(rec) ==
    IF impl = "routes" THEN rec.codeChallengeMethod = "S256" ELSE TRUE

\* C1: of all the token requests presenting one code at most one is answered
\* with the tokens; once a code was exchanged its record is gone from the store
\* before the response exists, no later request presenting it is answered with
\* tokens, and every later exchange request for it (in server.js: one that names
\* all its parameters) is answered 400 invalid_grant and changes nothing.
C1_SingleUseCode ==
    \A c \in Codes :
        /\ okCount[c] <= 1
        /\ okCount[c] = 1 =>
             /\ c \notin DOMAIN TokenStore
             /\ \A q \in TokenRequests :
                  q.code = c =>
                    LET r == TokenResult(TokenStore, q, now)
                    IN  /\ r.resp.status = 400
                        /\ r.resp.body = NoBody
                        /\ r.store = TokenStore
                        /\ ( /\ q.grant_type = "authorization_code"
                             /\ impl = "server" => Complete(q) )
                           => r.resp.error = "invalid_grant"

\* A code was exchanged and a later request presenting it was answered
\* 400 invalid_grant
C1_Witness ==
    \E c \in Codes :
        /\ okCount[c] = 1
        /\ last.op = "token" /\ last.code = c
        /\ last.status = 400 /\ last.error = "invalid_grant"

\* C2: in server.js at most one callback per state token gets past the lookup of
\* pendingAuthorizations and at most one code is minted per state token; a
\* callback waiting for the upstream exchange has already removed its pending
\* record, and every other callback carrying that state token is answered 400
\* without reaching the upstream.
C2_SingleUseState ==
    impl = "server" =>
        /\ \A st \in 0..UnknownState : passCount[st] <= 1
        /\ \A i \in 1..Len(inflight) :
             inflight[i].state \notin DOMAIN pendingAuthorizations
        /\ \A c1, c2 \in DOMAIN minted :
             c1 # c2 => minted[c1].state # minted[c2].state
        /\ \A st \in 1..UnknownState :
             passCount[st] >= 1 =>
               \A q \in CallbackRequestsServer :
                 q.state = st =>
                   LET r == CallbackServerLookup(pendingAuthorizations, q)
                   IN  ~r.passed /\ r.resp.status = 400

\* A callback waits for the upstream while a second callback with the same state
\* token has been answered 400 by the lookup
C2_Witness ==
    /\ impl = "server"
    /\ \E i \in 1..Len(inflight) :
         /\ passCount[inflight[i].state] = 1
         /\ inflight[i].state \in issuedStates
         /\ last.op = "callback" /\ last.status = 400
         /\ last.stateToken = inflight[i].state
         /\ last.desc = "Invalid or expired authorization request"

\* C3: in routes/oauth.js every code is minted by a callback whose state was
\* handed out by GET /oauth/authorize and was not used by an earlier minting
\* callback.
C3_OnlyIssuedUnusedStatesMint ==
    impl = "routes" =>
        /\ \A c \in DOMAIN minted : minted[c].state \in issuedStates
        /\ \A c1, c2 \in DOMAIN minted :
             c1 # c2 => minted[c1].state # minted[c2].state

\* C4: for a stored S256 code with challenge C and a request passing every
\* other check, the exchange succeeds exactly when the verifier V is present and
\* base64url(SHA256(V)) = C; a different verifier is answered 400 invalid_grant
\* and an omitted verifier 400 invalid_request.
C4_PkceBinding ==
    \A c \in DOMAIN TokenStore : \A q \in TokenRequests :
        LET rec == TokenStore[c]
            r == TokenResult(TokenStore, q, now).resp
            matches == <<q.code_verifier, rec.codeChallenge>> \in Sha256Table
        IN  (q.code = c /\ StoredWithS256(rec) /\ OtherChecksPass(q, rec)) =>
              /\ r.status = 200 <=> matches
              /\ (Truthy(q.code_verifier) /\ ~matches) =>
                   (r.status = 400 /\ r.error = "invalid_grant")
              /\ ~Truthy(q.code_verifier) =>
                   (r.status = 400 /\ r.error = "invalid_request")

\* C4 as stated: any other verifier, or omitting the verifier, is answered
\* invalid_grant.
C4_PkceBindingOmittedIsInvalidGrant ==
    \A c \in DOMAIN TokenStore : \A q \in TokenRequests :
        LET rec == TokenStore[c]
            r == TokenResult(TokenStore, q, now).resp
            matches == <<q.code_verifier, rec.codeChallenge>> \in Sha256Table
        IN  (q.code = c /\ StoredWithS256(rec) /\ OtherChecksPass(q, rec)) =>
              /\ r.status = 200 <=> matches
              /\ ~matches => (r.status = 400 /\ r.error = "invalid_grant")

\* A request without verifier for a stored, unexpired S256 code was answered
\* 400 invalid_request and the code is still in the store
C4_Witness ==
    /\ last.op = "token" /\ last.status = 400 /\ last.error = "invalid_request"
    /\ last.code \in DOMAIN TokenStore
    /\ StoredWithS256(TokenStore[last.code])
    /\ ~ (TokenStore[last.code].expiresAt < now)
    /\ last.desc = "code_verifier is required for PKCE"

\* C5: a token request for a stored code whose redirect_uri differs from the
\* redirectUri recorded with the code, be it by one trailing slash, is answered
\* 400 without tokens, and with invalid_grant when it names every parameter,
\* whatever its verifier.
C5_RedirectUriBinding ==
    \A c \in DOMAIN TokenStore : \A q \in TokenRequests :
        LET rec == TokenStore[c]
            r == TokenResult(TokenStore, q, now).resp
        IN  (q.code = c /\ q.redirect_uri # rec.redirectUri) =>
              /\ r.status = 400
              /\ r.body = NoBody
              /\ Complete(q) => r.error = "invalid_grant"

\* A request with the right verifier and another redirect_uri was refused for
\* its redirect_uri
C5_Witness ==
    /\ last.op = "token" /\ last.status = 400 /\ last.error = "invalid_grant"
    /\ last.code \in DOMAIN minted
    /\ last.desc = "redirect_uri does not match"

\* C6: routes/oauth.js redeems a code only under the method stored with it: a
\* record stored with S256 only for a verifier whose SHA-256 is the stored
\* challenge (never for a verifier that equals the challenge), a record stored
\* with plain only for a verifier equal to the challenge, a record with any
\* other method never.
C6_StoredMethodDecides ==
    impl = "routes" =>
        \A c \in DOMAIN authCodes : \A q \in TokenRequestsRoutes :
            LET rec == authCodes[c]
                r == TokenRoutesResult(authCodes, q, now).resp
                hashed == <<q.code_verifier, rec.codeChallenge>> \in Sha256Table
            IN  (q.code = c /\ r.status = 200) =>
                  \/ rec.codeChallengeMethod = "S256" /\ hashed
                  \/ rec.codeChallengeMethod = "plain"
                       /\ q.code_verifier = rec.codeChallenge

\* A code stored with plain was redeemed, and a code stored with another method
\* than S256 or plain was refused for its method
C6_Witness ==
    /\ impl = "routes"
    /\ last.op = "token" /\ last.status = 400
    /\ last.desc = "Unsupported code_challenge_method"
    /\ \E c \in Codes :
         /\ okCount[c] = 1
         /\ minted[c].state.codeChallengeMethod = "plain"

\* What a token response says to its caller: status, error code and tokens
Outcome(r) == [status |-> r.resp.status, error |-> r.resp.error, body |-> r.resp.body]

C8_OldPendingRejected ==
    impl = "server" =>
        \A i \in 1..Len(inflight) :
            inflight[i].passedAt - inflight[i].pending.createdAt <= PendingWindowServer

\* C9: in server.js every pending authorization and every authorization code in
\* the store is eventually out of the store.
C9_EveryRecordEventuallyRemoved ==
    /\ \A st \in 1..MaxAuthorize :
         (impl = "server" /\ st \in DOMAIN pendingAuthorizations)
           ~> (st \notin DOMAIN pendingAuthorizations)
    /\ \A c \in Codes :
         (impl = "server" /\ c \in DOMAIN authorizationCodes)
           ~> (c \notin DOMAIN authorizationCodes)

\* The half of C9 about codes, on its own
CodesEventuallyRemoved ==
    \A c \in Codes :
        (impl = "server" /\ c \in DOMAIN authorizationCodes)
          ~> (c \notin DOMAIN authorizationCodes)

\* C10: in routes/oauth.js a token response for code c carries the access token
\* and the refresh token the upstream gave in the callback that minted c and the
\* scope of the state of that callback, whatever other codes are in the store;
\* and for a code minted from a state with an S256 challenge X, an exchange
\* request in time with a verifier hashing to X and the redirect_uri of that
\* state is answered 200.
C10_TokensOfTheMintingFlow ==
    impl = "routes" =>
        /\ \A c \in DOMAIN authCodes : \A q \in TokenRequestsRoutes :
             LET r == TokenRoutesResult(authCodes, q, now).resp
                 o == DecodeState(minted[c].state)
             IN  q.code = c =>
                   /\ r.status = 200 =>
                        /\ r.body.access_token = minted[c].accessToken
                        /\ r.body.refresh_token = minted[c].refreshToken
                        /\ r.body.scope = o.scope
                   /\ ( /\ q.grant_type = "authorization_code"
                        /\ o.codeChallengeMethod = "S256"
                        /\ <<q.code_verifier, o.codeChallenge>> \in Sha256Table
                        /\ q.redirect_uri = o.redirectUri
                        /\ ~ (authCodes[c].expiresAt < now) )
                      => r.status = 200
        /\ (last.op = "token" /\ last.status = 200) =>
             /\ last.body.access_token = minted[last.code].accessToken
             /\ last.body.refresh_token = minted[last.code].refreshToken
             /\ last.body.scope = DecodeState(minted[last.code].state).scope

\* authorize with an S256 challenge, callback, token with the right verifier:
\* answered 200 while the code of another flow is in the store
C10_Witness ==
    /\ impl = "routes"
    /\ last.op = "token" /\ last.status = 200
    /\ minted[last.code].state \in issuedStates
    /\ minted[last.code].state.codeChallengeMethod = "S256"
    /\ last.body.access_token = minted[last.code].accessToken
    /\ \E c \in DOMAIN authCodes :
         c # last.code /\ minted[c].accessToken # last.body.access_token

C12_UpstreamErrorIsTerminal ==
    /\ impl = "routes" =>
         \A q \in CallbackGetRequests(now) : \A at \in {"at1", "at2"} :
           \A up \in {UpstreamFailed, UpstreamSession(at)} :
             LET r == CallbackGetRoutesResult(authCodes, q, now, up, nextId)
             IN  Truthy(q.error) =>
                   /\ r.resp.status = 400
                   /\ r.store = authCodes
                   /\ r.resp.code = 0 /\ r.resp.redirect = Absent
    /\ impl = "server" =>
         \A q \in CallbackRequestsServer :
             LET r == CallbackServerLookup(pendingAuthorizations, q)
             IN  Truthy(q.error) =>
                   /\ ~r.passed
                   /\ r.resp.status = 400
                   /\ r.pending = pendingAuthorizations
                   /\ r.resp.code = 0 /\ r.resp.redirect = Absent
    /\ impl = "serverless" =>
         \A q \in CallbackRequestsServerless : \A states \in StateStoresServerless :
             LET r == CallbackServerlessResult(states, codeStore, q, now, nextId)
             IN  (q.method = "GET" /\ Truthy(q.error)) =>
                   /\ r.resp.status = 400
                   /\ r.codeStore = codeStore /\ r.stateStore = states
                   /\ r.resp.code = 0 /\ r.resp.redirect = Absent

\* GET /oauth/callback of server.js was called with error and with the state
\* token of a pending authorization; it was answered 400 and the authorization
\* is still pending
C12_Witness ==
    /\ impl = "server"
    /\ last.op = "callback" /\ last.status = 400
    /\ last.desc = "Authentication failed"
    /\ last.stateToken \in DOMAIN pendingAuthorizations
    /\ authorizationCodes = EmptyMap

-----------------------------------------------------------------------------
(* The order of the checks of POST /oauth/token in routes/oauth.js *)

ChecksInOrder ==
    <<"grant_type", "code", "expiry", "code_verifier", "pkce", "redirect_uri">>

\* The verifier redeems the record under the method stored with it
PkceMatches(rec, code_verifier) ==
    \/ rec.codeChallengeMethod = "S256"
         /\ <<code_verifier, rec.codeChallenge>> \in Sha256Table
    \/ rec.codeChallengeMethod = "plain" /\ code_verifier = rec.codeChallenge

\* Request q fails check k on the store at time t
CheckFails(k, store, q, t) ==
    CASE k = "grant_type" -> q.grant_type # "authorization_code"
      [] k = "code" -> q.code = 0 \/ q.code \notin DOMAIN store
      [] k = "expiry" -> q.code \in DOMAIN store /\ store[q.code].expiresAt < t
      [] k = "code_verifier" -> ~Truthy(q.code_verifier)
      [] k = "pkce" -> q.code \in DOMAIN store
                         /\ ~PkceMatches(store[q.code], q.code_verifier)
      [] k = "redirect_uri" -> q.code \in DOMAIN store
                                 /\ q.redirect_uri # store[q.code].redirectUri

\* The position of the first check that q fails, 0 when it passes them all
FirstFailing(store, q, t) ==
    IF \E i \in 1..Len(ChecksInOrder) : CheckFails(ChecksInOrder[i], store, q, t)
    THEN CHOOSE i \in 1..Len(ChecksInOrder) :
           /\ CheckFails(ChecksInOrder[i], store, q, t)
           /\ \A j \in 1..(i - 1) : ~CheckFails(ChecksInOrder[j], store, q, t)
    ELSE 0

\* The check an error_description of the handler belongs to
CheckOfDesc(desc) ==
    CASE desc = "Only authorization_code grant type is supported" -> "grant_type"
      [] desc \in {"Missing authorization code",
                   "Authorization code is invalid or expired"} -> "code"
      [] desc = "Authorization code expired" -> "expiry"
      [] desc = "code_verifier is required for PKCE" -> "code_verifier"
      [] desc \in {"Unsupported code_challenge_method",
                   "PKCE verification failed"} -> "pkce"
      [] desc = "redirect_uri does not match" -> "redirect_uri"
      [] OTHER -> "none"

\* The error of each check; a request without code is answered invalid_request
ErrorOfCheck(k, q) ==
    CASE k = "grant_type" -> "unsupported_grant_type"
      [] k = "code" -> IF q.code = 0 THEN "invalid_request" ELSE "invalid_grant"
      [] k = "code_verifier" -> "invalid_request"
      [] OTHER -> "invalid_grant"

\* The error of each check when a request without code is answered invalid_grant
ErrorOfCheckCodeIsGrant(k, q) ==
    CASE k = "grant_type" -> "unsupported_grant_type"
      [] k = "code_verifier" -> "invalid_request"
      [] OTHER -> "invalid_grant"

\* C13: POST /oauth/token of routes/oauth.js answers 200 to a request passing
\* all of grant_type, code present and stored, record not expired, code_verifier
\* present, PKCE match, redirect_uri match, and otherwise answers 400 with the
\* error and the description of the first check failing in that order:
\* unsupported_grant_type, invalid_grant (invalid_request when the request
\* carries no code at all), invalid_grant, invalid_request, invalid_grant,
\* invalid_grant.
C13_ChecksInOrder ==
    impl = "routes" =>
        \A q \in TokenRequestsRoutes :
            LET r == TokenRoutesResult(authCodes, q, now).resp
                i == FirstFailing(authCodes, q, now)
            IN  IF i = 0 THEN r.status = 200
                ELSE /\ r.status = 400
                     /\ CheckOfDesc(r.desc) = ChecksInOrder[i]
                     /\ r.error = ErrorOfCheck(ChecksInOrder[i], q)

\* C13 as stated: a request that carries no code at all is answered
\* invalid_grant.
C13_ChecksInOrderNoCodeIsInvalidGrant ==
    impl = "routes" =>
        \A q \in TokenRequestsRoutes :
            LET r == TokenRoutesResult(authCodes, q, now).resp
                i == FirstFailing(authCodes, q, now)
            IN  IF i = 0 THEN r.status = 200
                ELSE /\ r.status = 400
                     /\ CheckOfDesc(r.desc) = ChecksInOrder[i]
                     /\ r.error = ErrorOfCheckCodeIsGrant(ChecksInOrder[i], q)

\* With an expired code in the store, a request without code was answered
\* invalid_request
C13_Witness ==
    /\ impl = "routes"
    /\ last.op = "token" /\ last.status = 400 /\ last.code = 0
    /\ last.error = "invalid_request" /\ last.desc = "Missing authorization code"
    /\ \E c \in DOMAIN authCodes : authCodes[c].expiresAt < now

\* C14: in routes/oauth.js every state GET /oauth/authorize creates stems from a
\* request that named its redirect_uri, and a request naming a response_type
\* other than code is answered 400 unsupported_response_type without a state
\* and without a redirect.
C14_AuthorizeRejectsBadRequests ==
    impl = "routes" =>
        /\ \A e \in issuedStates :
             \E q \in AuthorizeRequests :
               Truthy(q.redirect_uri) /\ q.redirect_uri = DecodeState(e).redirectUri
        /\ \A q \in AuthorizeRequests : \A rs \in RandomStates : \A rc \in RandomChallenges :
             LET r == AuthorizeRoutesResult(q, now, rs, rc)
             IN  (Truthy(q.response_type) /\ q.response_type # "code") =>
                   /\ r.status = 400 /\ r.error = "unsupported_response_type"
                   /\ r.state = NoState /\ r.status # 302

\* C15: GET /oauth/authorize of server.js and of part_010 answers a request whose
\* only defect is an omitted code_challenge or a code_challenge_method other
\* than S256 with HTTP 400 invalid_request; pendingAuthorizations is unchanged,
\* no state is encoded and no redirect is returned.
PkceDefect(q) == ~Truthy(q.code_challenge) \/ q.code_challenge_method # "S256"

C15_StrictAuthorizeRequiresS256 ==
    /\ impl = "server" =>
         \A q \in AuthorizeRequestsServer(oauthClients) :
           LET r == AuthorizeServerResult(oauthClients, pendingAuthorizations, q,
                                          Cardinality(issuedStates) + 1, now)
           IN  (/\ q.response_type = "code" /\ Truthy(q.client_id)
                /\ Truthy(q.redirect_uri) /\ PkceDefect(q)) =>
                 /\ r.resp.status = 400 /\ r.resp.error = "invalid_request"
                 /\ r.pending = pendingAuthorizations
    /\ impl = "strict" =>
         \A q \in AuthorizeRequestsStrict :
           LET r == AuthorizeStrictResult(q, now)
           IN  (/\ q.response_type = "code" /\ Truthy(q.state)
                /\ Truthy(q.redirect_uri) /\ PkceDefect(q)) =>
                 /\ r.status = 400 /\ r.error = "invalid_request"
                 /\ r.state = NoState

\* C16: a token request to routes/oauth.js that ends in an error leaves authCodes
\* exactly as it was, unless the record it names was found expired, in which
\* case that record alone is removed.
C16_ValidationErrorKeepsStore ==
    impl = "routes" =>
        \A q \in TokenRequestsRoutes :
          LET r == TokenRoutesResult(authCodes, q, now)
          IN  r.resp.status = 400 =>
                \/ r.store = authCodes
                \/ /\ q.code \in DOMAIN authCodes
                   /\ authCodes[q.code].expiresAt < now
                   /\ r.store = Without(authCodes, q.code)

\* C17: in server.js an authorization attempt only moves forward: a state token
\* that was deleted from pendingAuthorizations is never present again, a code
\* that was deleted from authorizationCodes is never present again, and a code
\* record exists only when the pending record of its flow has been deleted.
CodeAfterPendingDeleted ==
    \A c \in DOMAIN authorizationCodes :
      /\ c \in DOMAIN minted
      /\ minted[c].state \in issuedStates
      /\ minted[c].state \notin DOMAIN pendingAuthorizations

DeletedStaysDeleted ==
    /\ \A st \in issuedStates :
         st \notin DOMAIN pendingAuthorizations => st \notin DOMAIN pendingAuthorizations'
    /\ \A c \in DOMAIN minted :
         c \notin DOMAIN authorizationCodes => c \notin DOMAIN authorizationCodes'
    /\ DOMAIN pendingAuthorizations' \subseteq issuedStates'
    /\ issuedStates \subseteq issuedStates'
    /\ DOMAIN minted \subseteq DOMAIN minted'

C17_ForwardOnly ==
    /\ [](impl = "server" => CodeAfterPendingDeleted)
    /\ [][impl = "server" => DeletedStaysDeleted]_vars

\* A flow went all the way: its state token is deleted, its code was exchanged
\* and is deleted, and a callback presenting the state token again was refused
C17_Witness ==
    /\ impl = "server"
    /\ last.op = "callback" /\ last.status = 400
    /\ last.stateToken \in issuedStates
    /\ last.stateToken \notin DOMAIN pendingAuthorizations
    /\ \E c \in DOMAIN minted :
         /\ minted[c].state = last.stateToken
         /\ okCount[c] = 1
         /\ c \notin DOMAIN authorizationCodes

\* C18: POST /oauth/token of routes/oauth.js answers a code that was never
\* issued, a code that was consumed and a code that is stored but expired with
\* the same status, error and error_description.
Answer(r) == [status |-> r.resp.status, error |-> r.resp.error, desc |-> r.resp.desc]

C18_NoExistenceOracle ==
    impl = "routes" =>
        \A q \in TokenRequestsRoutes :
          (/\ q.grant_type = "authorization_code" /\ q.code # 0
           /\ \/ q.code \notin DOMAIN authCodes
              \/ authCodes[q.code].expiresAt < now) =>
            Answer(TokenRoutesResult(authCodes, q, now))
              = Answer(TokenRoutesResult(authCodes, [q EXCEPT !.code = UnknownCode], now))

\* C19: a callback of routes/oauth.js (GET or POST) whose state is older than 10
\* minutes is answered HTTP 400 with error invalid_state or invalid_request,
\* whatever the upstream would have answered, and no code is stored.
StateTooOld(e, t) == e.ok /\ t - DecodeState(e).timestamp > StateMaxAgeRoutes

HardStop(r, store) ==
    /\ r.resp.status = 400
    /\ r.resp.error \in {"invalid_state", "invalid_request"}
    /\ r.resp.code = 0
    /\ r.store = store

C19_OldStateIsRejected ==
    impl = "routes" =>
        \A up \in {UpstreamFailed, UpstreamSession(AccessTokenOf(nextId))} :
          /\ \A q \in CallbackPostRequests(now, AccessTokenOf(nextId)) :
               (Truthy(q.access_token) /\ StateTooOld(q.state, now)) =>
                 HardStop(CallbackPostRoutesResult(authCodes, q, now, up, nextId), authCodes)
          /\ \A q \in CallbackGetRequests(now) :
               (Truthy(q.code) /\ ~Truthy(q.error) /\ StateTooOld(q.state, now)) =>
                 HardStop(CallbackGetRoutesResult(authCodes, q, now, up, nextId), authCodes)

\* C20: POST /oauth/register of routes/oauth.js answers a missing, non-list or
\* empty redirect_uris with 400 invalid_redirect_uri; otherwise a list of grant
\* types with a member outside {authorization_code, refresh_token} with 400
\* invalid_grant_type; otherwise a token_endpoint_auth_method outside {none,
\* client_secret_post, client_secret_basic} with 400 invalid_client_metadata;
\* no response other than 201 carries a client_id or a client_secret, and a
\* register request leaves the store as it was.
Is400(r, error) == r.resp.status = 400 /\ r.resp.error = error

RegisterErrorsInOrder ==
    \A q \in RegisterRequestsRoutes : \A clientId \in RandomClientIds :
    \A clientSecret \in RandomClientSecrets : \A thrown \in ThrownOutcomes :
      LET r == RegisterRoutesResult(q, clientId, clientSecret, thrown)
          badUris == q.redirect_uris.type # "array" \/ q.redirect_uris.items = <<>>
          listed == q.grant_types.type \in {"undefined", "array"}
          badGrant == /\ q.grant_types.type = "array"
                      /\ \E i \in 1..Len(q.grant_types.items) :
                           q.grant_types.items[i]
                             \notin {"authorization_code", "refresh_token"}
          badMethod == /\ Truthy(q.token_endpoint_auth_method)
                       /\ q.token_endpoint_auth_method
                            \notin {"none", "client_secret_post", "client_secret_basic"}
      IN  /\ badUris => Is400(r, "invalid_redirect_uri")
          /\ (~badUris /\ badGrant) => Is400(r, "invalid_grant_type")
          /\ (~badUris /\ listed /\ ~badGrant /\ badMethod)
               => Is400(r, "invalid_client_metadata")
          /\ (~badUris /\ listed /\ ~badGrant /\ ~badMethod) => r.resp.status = 201
          /\ r.resp.status # 201 =>
               /\ r.registration = NoRegistration
               /\ r.resp.redirect = Absent

ValidRegistration(q) ==
    /\ q.redirect_uris.type = "array" /\ q.redirect_uris.items # <<>>
    /\ q.grant_types.type \in {"undefined", "array"}
    /\ \A i \in 1..Len(q.grant_types.items) :
         q.grant_types.items[i] \in {"authorization_code", "refresh_token"}
    /\ q.token_endpoint_auth_method
         \in {Absent, "none", "client_secret_post", "client_secret_basic"}

C21_SecretOnlyForConfidentialClients ==
    /\ impl = "routes" =>
         \A q \in RegisterRequestsRoutes : \A clientId \in RandomClientIds :
         \A clientSecret \in RandomClientSecrets : \A thrown \in ThrownOutcomes :
           LET r == RegisterRoutesResult(q, clientId, clientSecret, thrown).resp
           IN  ValidRegistration(q) =>
                 /\ r.status = 201
                 /\ r.body.client_id = clientId
                 /\ IF q.token_endpoint_auth_method
                         \in {"client_secret_post", "client_secret_basic"}
                    THEN r.body.client_secret = clientSecret
                    ELSE r.body.client_secret = Absent
    /\ (impl = "routes" /\ last.op = "register" /\ last.status = 201) =>
         /\ last.body.client_id \in RandomClientIds
         /\ last.body.client_secret # Absent
              <=> last.body.token_endpoint_auth_method
                    \in {"client_secret_post", "client_secret_basic"}

\* A confidential client was registered and got its secret
C21_Witness ==
    /\ impl = "routes"
    /\ last.op = "register" /\ last.status = 201
    /\ last.body.token_endpoint_auth_method = "client_secret_basic"
    /\ last.body.client_secret \in RandomClientSecrets

\* The client records routes/oauth.js holds: the module declares one store,
\* authCodes, and the register handler ends with res.status(201).json(...)
\* without a write, so there are none
RegisteredClientsRoutes == EmptyMap

\* C22: after POST /oauth/register of routes/oauth.js answered 201 with client_id
\* X, the server holds a RegisteredClient record for X.
C22_RegisteredClientPersists ==
    (impl = "routes" /\ last.op = "register" /\ last.status = 201) =>
        last.body.client_id \in DOMAIN RegisteredClientsRoutes

\* C23: in server.js a record of oauthClients is never modified or removed once
\* POST /oauth/register created it, only a successful registration writes
\* oauthClients, and a registration refused for its redirect_uris adds nothing.
RegistrationKeepsClients ==
    \A q \in RegisterRequests :
      LET clientId == ClientIdOf(Cardinality(DOMAIN oauthClients) + 1)
          r == RegisterServerResult(oauthClients, q, clientId, now)
      IN  /\ \A c \in DOMAIN oauthClients :
               c \in DOMAIN r.clients /\ r.clients[c] = oauthClients[c]
          /\ (q.kind # "array" \/ q.redirect_uris = {}) =>
               (r.resp.status = 400 /\ r.clients = oauthClients)

ClientsOnlyGrow ==
    /\ \A c \in DOMAIN oauthClients :
         c \in DOMAIN oauthClients' /\ oauthClients'[c] = oauthClients[c]
    /\ oauthClients' # oauthClients =>
         (last'.op = "register" /\ last'.status = 200
          /\ DOMAIN oauthClients' = DOMAIN oauthClients \cup {last'.redirect})

C23_ClientsImmutable ==
    /\ [](impl = "server" => RegistrationKeepsClients)
    /\ [][impl = "server" => ClientsOnlyGrow]_vars

\* With a client registered, a registration was refused
C23_Witness ==
    /\ impl = "server"
    /\ DOMAIN oauthClients # {}
    /\ last.op = "register" /\ last.status = 400
    /\ \A c \in DOMAIN oauthClients : oauthClients[c].redirectUris # {}

\* C24: every discovery handler returns a document that depends on the
\* configuration only: whatever document a GET was answered with, a further GET
\* of the same document gets the identical one whatever its headers and
\* whatever the stores hold, and a request without Authorization header is
\* answered like one with it.
SameDocument(a, b) == DOMAIN a.body = DOMAIN b.body => a = b

C24_DiscoveryIsPure ==
    (last.op = "discovery" /\ last.status = 200) =>
        \A headers \in DiscoveryHeaders :
          /\ \A d \in DiscoveryAnswers(headers) :
               d.status = 200 /\ SameDocument(d, last)
          /\ \E d \in DiscoveryAnswers(headers) : d = last

\* C25: in the serverless variant the state record the authorize function
\* stored is found by the callback function, and the code record the callback
\* function stored is found by the token function.
C25_ServerlessFlowCompletes ==
    impl = "serverless" =>
        /\ \A st \in DOMAIN stateStoreAuthorize :
             CallbackServerlessResult(stateStore, codeStore,
                                      ServerlessReq("GET", st, "at1", "rt1", Absent),
                                      now, nextId).resp.error # "invalid_state"
        /\ \A c \in DOMAIN codeStore : \A q \in TokenRequestsServerless :
             (q.method = "POST" /\ q.body.grant_type = "authorization_code"
              /\ q.body.code = c) =>
               TokenServerlessResult(codeStoreToken, q).resp.desc
                 # "Authorization code is invalid or expired"

\* C26: in server.js, for every authenticated tools/call of save_meal_macros the
\* user_id that reaches the tool, and that is written with the meal, is the id
\* of the user the bearer token was verified for, whatever the caller sent.
C26_SavedUnderVerifiedUser ==
    impl = "server_mcp" =>
        /\ \A row \in fact_meal_macros : row.user_id = row.by
        /\ (last.op = "mcp" /\ last.body.tool = "save_meal_macros") =>
             last.body.user_id = last.body.userId

\* C27: in server.js, for every authenticated tools/call of query_meal_data and
\* every query the caller can send, the query handed to the tool touches only
\* rows whose user_id is the id of the authenticated user.
C27_QueriesScopedToUser ==
    impl = "server_mcp" =>
        \A q \in McpRequestsServer : \A inserted \in BOOLEAN :
          LET call == McpServerResult(fact_meal_macros, q, inserted).resp.body
          IN  call.tool = "query_meal_data" =>
                \A row \in call.rows : row.user_id = call.userId

\* C28: in save_meal of api/mcp/index.js and of tools/meals.js the user_id
\* written with a meal is the user id of the verified bearer token and never a
\* value of the tool arguments; without auth info carrying a token the tool
\* inserts nothing and returns an error result.
C28_SaveMealUsesVerifiedUser ==
    impl \in {"routes_mcp", "api_mcp"} =>
        /\ \A row \in fact_meal_macros : row.user_id = row.by
        /\ \A q \in SaveMealRequests : \A inserted \in BOOLEAN :
             LET verified == GetUser(q.authorization)
                 r == SaveMealResult(fact_meal_macros, q,
                                     VerifySupabaseToken(q.authorization), inserted)
                 anonymous == SaveMealResult(fact_meal_macros, q, NoAuthInfo, inserted)
             IN  /\ r.table \subseteq fact_meal_macros \cup {MealRow(verified, verified)}
                 /\ (Truthy(verified) /\ inserted) => MealRow(verified, verified) \in r.table
                 /\ ~Truthy(verified) =>
                      (r.table = fact_meal_macros /\ r.resp.error = "isError")
                 /\ anonymous.table = fact_meal_macros
                 /\ anonymous.resp.error = "isError"

\* A caller verified as u1 sent user_id u2 and the meal was written for u1
C28_Witness ==
    /\ impl \in {"routes_mcp", "api_mcp"}
    /\ last.op = "save_meal" /\ last.error = Absent
    /\ last.body.userId = "u1" /\ last.body.sent = "u2" /\ last.body.user_id = "u1"
    /\ MealRow("u1", "u1") \in fact_meal_macros
    /\ \A row \in fact_meal_macros : row.user_id # "u2"

\* C29: in server.js every record of pendingAuthorizations and of
\* authorizationCodes (and every pending record a callback holds across its
\* await) has a clientId that is a key of oauthClients and a redirectUri among
\* that client's registered redirectUris; a callback redirect carrying a code
\* goes to a redirect URI its client registered.
BoundToRegisteredClient(rec) ==
    /\ rec.clientId \in DOMAIN oauthClients
    /\ rec.redirectUri \in oauthClients[rec.clientId].redirectUris

C29_RecordsNameRegisteredClients ==
    impl = "server" =>
        /\ \A st \in DOMAIN pendingAuthorizations :
             BoundToRegisteredClient(pendingAuthorizations[st])
        /\ \A i \in 1..Len(inflight) : BoundToRegisteredClient(inflight[i].pending)
        /\ \A c \in DOMAIN authorizationCodes :
             BoundToRegisteredClient(authorizationCodes[c])
        /\ (last.op = "callback" /\ last.status = 302) =>
             LET q == authorized[minted[last.code].state]
             IN  /\ q.client_id \in DOMAIN oauthClients
                 /\ last.redirect = q.redirect_uri
                 /\ last.redirect \in oauthClients[q.client_id].redirectUris

\* A code was delivered to the registered redirect URI of its client while the
\* code record is still stored
C29_Witness ==
    /\ impl = "server"
    /\ last.op = "callback" /\ last.status = 302
    /\ last.code \in DOMAIN authorizationCodes
    /\ authorizationCodes[last.code].clientId \in DOMAIN oauthClients
    /\ last.redirect
         \in oauthClients[authorizationCodes[last.code].clientId].redirectUris

\* C30: POST /oauth/token of routes/oauth.js does not exchange a code minted
\* for one client for a request that names a different client_id: whatever
\* code is stored for a client the authorize request named, a token request
\* for that code whose client_id is another value is not answered 200.
C30_TokenRevalidatesClient ==
    impl = "routes" =>
        \A c \in DOMAIN authCodes : \A q \in TokenRequestsRoutes :
            LET rec == authCodes[c]
                r == TokenRoutesResult(authCodes, q, now).resp
            IN  (/\ q.code = c
                 /\ Truthy(q.client_id)
                 /\ rec.clientId # "mcp-client"
                 /\ q.client_id # rec.clientId) => r.status # 200

\* C31: GET /oauth/authorize of routes/oauth.js called without code_challenge
\* is answered with a state that carries the challenge the handler drew at
\* random and the method plain, whatever method the query named; and a stored
\* code minted from such a state is exchanged (200) only by a token request
\* whose code_verifier equals that challenge.
C31_FallbackChallengeIsThePlainVerifier ==
    impl = "routes" =>
        /\ \A q \in AuthorizeRequestsNoChallenge :
           \A rs \in RandomStates : \A rc \in RandomChallenges :
             LET r == AuthorizeRoutesResult(q, now, rs, rc)
             IN  /\ r.status = 302
                 /\ DecodeState(r.state).codeChallenge = rc
                 /\ DecodeState(r.state).codeChallengeMethod = "plain"
        /\ \A c \in DOMAIN authCodes : \A q \in TokenRequestsRoutes :
             LET o == DecodeState(minted[c].state)
                 r == TokenRoutesResult(authCodes, q, now).resp
             IN  (/\ minted[c].state \in issuedStates
                  /\ o.codeChallenge \in RandomChallenges
                  /\ q.code = c
                  /\ r.status = 200) => q.code_verifier = o.codeChallenge

\* A code minted from a state of the PKCE fallback has been exchanged
C31_Witness ==
    /\ impl = "routes"
    /\ last.op = "token" /\ last.status = 200
    /\ \E c \in 1..MaxIds :
         /\ c \in DOMAIN minted
         /\ okCount[c] = 1
         /\ minted[c].state \in issuedStates
         /\ minted[c].state.codeChallenge \in RandomChallenges
         /\ minted[c].state.codeChallengeMethod = "plain"

\* C32: a callback request that is answered with an error status (POST and
\* GET /oauth/callback of routes/oauth.js, GET /oauth/callback of server.js)
\* has added no record to the code store of its program.
CallbackOps == {"callback_post", "callback_get", "callback"}

C32_FailedCallbackStoresNothing ==
    [][(last'.op \in CallbackOps /\ last'.status >= 400) =>
          /\ DOMAIN authCodes' \subseteq DOMAIN authCodes
          /\ DOMAIN authorizationCodes' \subseteq DOMAIN authorizationCodes]_vars

\* C33: the authorization-server metadata of part_007 agrees with the endpoints
\* of routes/oauth.js: no token request whose grant_type is one of
\* grant_types_supported is answered unsupported_grant_type, and
\* code_challenge_methods_supported is exactly the set of methods that
\* GET /oauth/authorize accepts with a challenge and POST /oauth/token verifies.
Listed(array) == { array[i] : i \in 1..Len(array) }

ChallengeMethods == {"S256", "plain", "S512"}

\* The methods GET /oauth/authorize accepts together with a code_challenge
MethodsAuthorizeAccepts ==
    { m \in ChallengeMethods :
        \A rs \in RandomStates : \A rc \in RandomChallenges :
          AuthorizeRoutesResult(AuthReq("A", "https://app/cb", "code", "s1", "meals",
                                        "d1", m), now, rs, rc).status = 302 }

\* The methods POST /oauth/token has a verification for: a record stored with
\* the method is not refused as unsupported
MethodsTokenVerifies ==
    { m \in ChallengeMethods :
        LET o == [clientState |-> "s1", redirectUri |-> "https://app/cb",
                  clientId |-> "A", scope |-> "meals", codeChallenge |-> "d1",
                  codeChallengeMethod |-> m, timestamp |-> now]
            store == 1 :> CodeRecordRoutes(o, "at1", "rt1", "u1", now)
            q == TokenReq("authorization_code", 1, "https://app/cb", "v1", "A")
        IN  TokenRoutesResult(store, q, now).resp.desc
              # "Unsupported code_challenge_method" }

C33_MetadataAgreesWithEndpoints ==
    (/\ impl = "routes"
     /\ last.op = "discovery" /\ last.status = 200
     /\ "grant_types_supported" \in DOMAIN last.body) =>
        /\ \A g \in Listed(last.body.grant_types_supported) :
             \A q \in TokenRequestsRoutes :
               q.grant_type = g =>
                 TokenRoutesResult(authCodes, q, now).resp.error
                   # "unsupported_grant_type"
        /\ Listed(last.body.code_challenge_methods_supported)
             = MethodsAuthorizeAccepts \cap MethodsTokenVerifies

\* C34: handleMcpRequest of routes/mcp.js answers a request that has no Bearer
\* token, or a token the upstream does not verify, with 401 and a
\* WWW-Authenticate header naming the protected-resource metadata URL, and does
\* not call transport.handleRequest for it; a request that reaches the
\* transport carries a verified token; a tool with requiresAuth runs only with
\* the auth info of the verified user.
CarriesVerifiedToken(q) ==
    /\ q.authorization.scheme = "Bearer "
    /\ q.authorization.credentials \in {"at1", "at2"}

C34_OnlyVerifiedRequestsReachTransport ==
    impl = "routes_mcp" =>
        /\ \A q \in McpRequestsRoutes : \A inserted \in BOOLEAN :
             LET r == HandleMcpRequestResult(fact_meal_macros, q, inserted)
             IN  /\ ~CarriesVerifiedToken(q) =>
                       /\ r.resp.status = 401
                       /\ r.resp.body.www_authenticate.resource_metadata
                            = <<BASE_URL, "/.well-known/oauth-protected-resource">>
                       /\ ~r.transport
                       /\ r.ran.tool = Absent
                       /\ r.table = fact_meal_macros
                 /\ r.transport <=> CarriesVerifiedToken(q)
                 /\ r.ran.tool = "save_meal" =>
                       /\ CarriesVerifiedToken(q)
                       /\ r.ran.authInfo.token = q.authorization.credentials
                       /\ r.ran.authInfo.userId = UserOf(q.authorization.credentials)
        /\ \A row \in fact_meal_macros : row.by \in Users
        /\ last.op = "save_meal" => last.body.userId \in Users

\* With a meal saved by a verified caller in the table, a request whose token
\* the upstream does not verify has been answered 401 invalid_token
C34_Witness ==
    /\ impl = "routes_mcp"
    /\ fact_meal_macros # {}
    /\ last.op = "mcp" /\ last.status = 401 /\ last.error = "invalid_token"
    /\ last.body.www_authenticate.resource_metadata = ResourceMetadataUrl

====
